---- MODULE Spec2Model ----
(***************************************************************************)
(* A model of the RAG core of rcm-stage1: the query service boundary of    *)
(* learn/faissdb_mcp/faiss_server.py (RAGContext, app_lifespan, rag_query),*)
(* the retrieval of the vector-search server and of the CLI script, and    *)
(* the offline index build of utils/faissdb_ingestion.py.                  *)
(*                                                                         *)
(* Texts are sequences of integer tokens.  Python lists are sequences;     *)
(* positions returned by the index are 0-based as in faiss, with -1 the    *)
(* "no match" label.  An optional value (None or an object, a missing or   *)
(* a present file) is a record [some, val].                                *)
(***************************************************************************)
EXTENDS Integers, Sequences, FiniteSets, TLC

\* ------------------------------------------------------------------ bounds
MaxChunks == 6      \* chunks of a persisted index / metadata file
NQueries  == 2      \* rag_query calls that may be in flight together
MaxCalls  == 3      \* rag_query calls in one run of the server

\* ------------------------------------------------------- program constants
TOP_K == 5

Min(a, b) == IF a <= b THEN a ELSE b

None == [some |-> FALSE, val |-> <<>>]
Some(v) == [some |-> TRUE, val |-> v]

\* ------------------------------------------------------------------- texts
\* The text of the i-th chunk of the corpus, and the texts a caller asks.
ChunkText(i) == <<i>>
QueryTexts == {ChunkText(1), <<8, 9>>}
\* The blank line "\n\n" between the chunks of a context.
BlankLine == <<0>>

\* ------------------------------------------------------- embedding model
\* SentenceTransformer.encode: a text has a direction (a multiple of 60
\* degrees) and a length; normalize_embeddings=True scales the length to 1.
Dir(t) == (t[1] + Len(t) - 1) % 6
Mag(t) == 1 + (t[1] % 2)
Encode(t, normalize) ==
    [dir |-> Dir(t), mag |-> IF normalize THEN 1 ELSE Mag(t)]

\* Twice the cosine of a multiple of 60 degrees.
Cos2(d) == CASE d % 6 = 0 -> 2
             [] d % 6 = 1 -> 1
             [] d % 6 = 2 -> -1
             [] d % 6 = 3 -> -2
             [] d % 6 = 4 -> -1
             [] OTHER -> 1
InnerProduct(u, v) == u.mag * v.mag * Cos2(u.dir - v.dir + 6)

\* --------------------------------------------------------------- faiss
\* IndexFlatIP.search(x, k): the labels of the k stored vectors of largest
\* inner product, best first; the labels past the index size are -1.
RankOf(index, qv, i) ==
    Cardinality({j \in 1..Len(index) :
        \/ InnerProduct(qv, index[j]) > InnerProduct(qv, index[i])
        \/ /\ InnerProduct(qv, index[j]) = InnerProduct(qv, index[i])
           /\ j < i})
\* A search that returns the stored vectors of smallest inner product first.
SearchWorstFirst(index, qv, k) ==
    [r \in 1..k |->
        IF r <= Len(index)
        THEN (CHOOSE i \in 1..Len(index) :
                 RankOf(index, qv, i) = Len(index) - r) - 1
        ELSE -1]
Search(index, qv, k) ==
    [r \in 1..k |->
        IF r <= Len(index)
        THEN (CHOOSE i \in 1..Len(index) : RankOf(index, qv, i) = r - 1) - 1
        ELSE -1]

\* ------------------------------------------------------------ python lists
\* list[i] of Python: a negative i counts from the end; out of range raises.
InRange(list, i) == /\ i < Len(list)
                    /\ i >= 0 - Len(list)
PyIndex(list, i) == IF i >= 0 THEN list[i + 1] ELSE list[Len(list) + i + 1]

RECURSIVE Join(_, _)
\* sep.join(parts)
Join(parts, sep) ==
    IF Len(parts) = 0 THEN <<>>
    ELSE IF Len(parts) = 1 THEN parts[1]
    ELSE parts[1] \o sep \o Join(Tail(parts), sep)

\* ------------------------------------------------------------- retrieval
\* The labels a query path keeps, each mapped to its chunk with list[i].
\* raised: some kept label is out of the list's range (IndexError).
MatchDocs(docs, labels) ==
    LET bad == \E r \in 1..Len(labels) : ~InRange(docs, labels[r])
    IN  [raised |-> bad,
         labels |-> labels,
         docs   |-> IF bad THEN <<>>
                    ELSE [r \in 1..Len(labels) |-> PyIndex(docs, labels[r])]]

\* faiss_server.py, rag_query: [... for i in I[0] if i != -1]
KeepLabelRag(i) == i # -1
\* vector_search_server.py, query: for idx, score in zip(I[0], D[0])
KeepLabelVector(i) == TRUE
\* faiss-db-retrival-llm.py: [documents[i] for i in I[0]]
KeepLabelCli(i) == TRUE

\* The three retrieval paths.  rag_query and the CLI script embed the query
\* with normalize_embeddings=True and ask for TOP_K labels; the vector-search
\* server embeds with the default (no normalization) and asks for top_k.
\* The query vector of each path.
\* rag_query: embedder.encode([user_query], normalize_embeddings=True)
QueryVectorRag(user_query) == Encode(user_query, TRUE)
\* vector_search_server.py: model.encode([text])
QueryVectorVector(text) == Encode(text, FALSE)
\* faiss-db-retrival-llm.py: embedder.encode([query], normalize_embeddings=True)
QueryVectorCli(query) == Encode(query, TRUE)

RetrieveRag(index, documents, user_query) ==
    MatchDocs(documents,
              SelectSeq(Search(index, QueryVectorRag(user_query), TOP_K),
                        KeepLabelRag))
RetrieveVector(index, metadata, text, top_k) ==
    MatchDocs(metadata,
              SelectSeq(Search(index, QueryVectorVector(text), top_k),
                        KeepLabelVector))
RetrieveCli(index, documents, query) ==
    MatchDocs(documents,
              SelectSeq(Search(index, QueryVectorCli(query), TOP_K),
                        KeepLabelCli))

\* ------------------------------------------------- faiss_server.py: state
VARIABLES
    apiKey,       \* GEMINI_API_KEY is set in the environment
    indexFile,    \* ./faiss.index: None (missing) or Some(the stored vectors)
    docsFile,     \* ./semantic_chunks.json: None or Some(the chunk texts)
    phase,        \* "start", "imported", "serving", "torn_down", "failed"
    ctx,          \* the RAGContext of app_lifespan
    startupError, \* the exception that ended startup, or "none"
    cleanups,     \* how often RAGContext.cleanup has run
    calls,        \* rag_query calls made so far
    qs,           \* per call slot: the position and the locals of rag_query
    loads,        \* what the loads of setup did: "none", "ok", "failed"
    exitHow       \* how the block around the yield of app_lifespan was
                  \* left: "none", "return", "exception"

serverVars == <<apiKey, indexFile, docsFile, phase, ctx, startupError,
                cleanups, calls, qs, loads, exitHow>>

\* ------------------------------------------- one retrieval, on its own
VARIABLES
    rPath,        \* the path that ran: "none", "rag", "vector", "cli"
    rIndex,       \* the index searched
    rDocs,        \* the parallel chunk list
    rText,        \* the query text
    rK,           \* the K asked for (top_k; TOP_K on the rag and cli paths)
    rOut,         \* the retrieval result
    rQ,           \* the query vector the path searched with
    rPrompt       \* the prompt the path built from the result, if any

retrVars == <<rPath, rIndex, rDocs, rText, rK, rOut, rQ, rPrompt>>

\* --------------------------------------- faissdb_ingestion.py: state
VARIABLES
    bpc,          \* "start", "split", "encoded", "indexed", "done", "failed"
    inputMd,      \* ./NPP.md: its lines
    bDocs,        \* docs of __main__
    bMetas,       \* metas of __main__
    bEmb,         \* embeddings of build_faiss_index
    bHist         \* history: the files when the run started (idx0, docs0),
                  \* the completed runs, the files after the first of them

\* A second run of faissdb_ingestion.py, in the same directory.
VARIABLES
    other         \* its position (pc: "none" when there is no such run), the
                  \* lines it read (input), its docs, metas and embeddings

\* temp_chunking.py, the semantic split, in the same directory.
VARIABLES
    split         \* its position (pc: "none" when it does not run), the
                  \* model's answer (content), what the parse gave (raw)

buildVars == <<bpc, inputMd, bDocs, bMetas, bEmb, bHist, other, split>>

\* try_server.py, the client driver, and app.py, the intake chat.
VARIABLES
    client,       \* async_main: its position (pc), the toolset ("none",
                  \* "open", "closed"), the calls of toolset.close() made
                  \* (closes), the events received from the run
    session_state, \* st.session_state of app.py: the keys set, their values
    chat          \* history of the chat: the inputs that did not take it
                  \* forward (retries), the exception that ended the last
                  \* run of app() (raised), the last input (user_input)

frontVars == <<client, session_state, chat>>

\* No client driver has run and no chat session is open.
FrontIdle ==
    /\ client = [pc |-> "none", toolset |-> "none", closes |-> 0,
                 events |-> <<>>]
    /\ session_state = <<>>
    /\ chat = [retries |-> 0, raised |-> "none", user_input |-> None]

\* What the actions of the server leave alone.
offServer == <<retrVars, buildVars, frontVars>>

Fields == {"index", "documents", "embedder", "gemini_model"}

\* RAGContext.__init__
NewContext == [index |-> None, documents |-> None,
               embedder |-> None, gemini_model |-> None]

\* bool(x) of Python for the value of a context field: None is false, an
\* empty list is false, any other object is true.
Truthy(f, x) == /\ x.some
                /\ (f = "documents" => Len(x.val) > 0)

\* [d["chunk"] for d in chunk_dicts]
ChunksOf(chunk_dicts) == [i \in 1..Len(chunk_dicts) |-> chunk_dicts[i].chunk]

\* setup with its exception swallowed (except: pass instead of raise).
SetupResultSwallowed(c, embOK, genOK) ==
    IF ~indexFile.some THEN [ctx |-> c, raised |-> FALSE]
    ELSE LET c1 == [c EXCEPT !.index = Some(indexFile.val)] IN
    IF ~docsFile.some THEN [ctx |-> c1, raised |-> FALSE]
    ELSE LET c2 == [c1 EXCEPT !.documents = Some(ChunksOf(docsFile.val))] IN
    IF ~embOK THEN [ctx |-> c2, raised |-> FALSE]
    ELSE LET c3 == [c2 EXCEPT !.embedder = Some(<<1>>)] IN
    IF ~genOK THEN [ctx |-> c3, raised |-> FALSE]
    ELSE [ctx |-> [c3 EXCEPT !.gemini_model = Some(<<2>>)], raised |-> FALSE]

\* RAGContext.setup: the four loads in order; the first that fails raises,
\* and the fields assigned before it keep their values.
SetupResult(c, embOK, genOK) ==
    IF ~indexFile.some THEN [ctx |-> c, raised |-> TRUE]
    ELSE LET c1 == [c EXCEPT !.index = Some(indexFile.val)] IN
    IF ~docsFile.some THEN [ctx |-> c1, raised |-> TRUE]
    ELSE LET c2 == [c1 EXCEPT !.documents = Some(ChunksOf(docsFile.val))] IN
    IF ~embOK THEN [ctx |-> c2, raised |-> TRUE]
    ELSE LET c3 == [c2 EXCEPT !.embedder = Some(<<1>>)] IN
    IF ~genOK THEN [ctx |-> c3, raised |-> TRUE]
    ELSE [ctx |-> [c3 EXCEPT !.gemini_model = Some(<<2>>)], raised |-> FALSE]

\* RAGContext.cleanup
CleanupResult(c) == [f \in Fields |-> None]

\* A lifespan that yields whatever setup did.
LifespanYieldsAlways(raised) == TRUE

\* app_lifespan: the context is yielded to the server only when setup
\* returned; an exception of setup leaves the context manager.
LifespanYields(raised) == ~raised

\* ----------------------------------------------- faiss_server.py: rag_query
NoResult == [kind |-> "none", prompt |-> <<>>]
\* "RAG system not initialized. Please check server logs."
NotInitialized == [kind |-> "not_initialized", prompt |-> <<>>]
\* A handler that lets the exception leave rag_query.
OnExceptionReraised == [kind |-> "raise", prompt |-> <<>>]

\* except Exception as e: return f"An error occurred while processing the
\* query: {e}"
OnException == [kind |-> "error", prompt |-> <<>>]
\* response.text.strip(): the model's answer to the prompt
Answer(prompt) == [kind |-> "answer", prompt |-> prompt]

\* The results that are strings handed to the caller.
IsString(r) == r.kind \in {"not_initialized", "error", "answer"}

\* rag_query without its initialization check.
InitCheckOmitted(c) == TRUE

\* if not all([index, documents, embedder, gemini_model])
InitCheck(c) == \A f \in Fields : Truthy(f, c[f])

\* The context fields the code dereferences from the check to the await of
\* generate_content_async, and from the resumption to the return.
StartUses == {"embedder", "index", "documents", "gemini_model"}
\* A resumption that reads rag_context.documents again.
ResumeUsesDocuments == {"documents"}
ResumeUses == {}

\* A prompt whose context lists the matched chunks last to first.
BuildPromptReversed(matched_docs, user_query) ==
    <<[instruction |-> {"helpful_assistant", "use_context",
                        "say_if_context_insufficient",
                        "then_general_knowledge"},
       context  |-> Join([r \in 1..Len(matched_docs) |->
                             matched_docs[Len(matched_docs) + 1 - r]],
                         BlankLine),
       nchunks  |-> Len(matched_docs),
       question |-> user_query]>>

\* The f-string of the prompt: the instruction, the context, the question.
\* The instruction is the set of things its sentences tell the model.
BuildPrompt(matched_docs, user_query) ==
    <<[instruction |-> {"helpful_assistant", "use_context",
                        "say_if_context_insufficient",
                        "then_general_knowledge"},
       context  |-> IF Len(matched_docs) > 0
                    THEN Join(matched_docs, BlankLine) ELSE <<>>,
       nchunks  |-> Len(matched_docs),
       question |-> user_query]>>

\* faiss-db-retrival-llm.py: the prompt of lines 47-54.
BuildPromptCli(matched_docs, query) ==
    <<[instruction |-> {"helpful_assistant", "use_context"},
       context  |-> Join(matched_docs, BlankLine),
       nchunks  |-> Len(matched_docs),
       question |-> query]>>

\* rag_query keeping the chunks it matched as the context's documents.
RagQueryStartCaching(c, user_query, embOK, searchOK) ==
    IF ~InitCheck(c)
    THEN [pc |-> "done", prompt |-> <<>>, result |-> NotInitialized,
          bad |-> FALSE, ctx |-> c]
    ELSE IF \E f \in StartUses : ~c[f].some
    THEN [pc |-> "done", prompt |-> <<>>, result |-> OnException,
          bad |-> TRUE, ctx |-> c]
    ELSE IF ~embOK \/ ~searchOK
    THEN [pc |-> "done", prompt |-> <<>>, result |-> OnException,
          bad |-> FALSE, ctx |-> c]
    ELSE LET r == RetrieveRag(c.index.val, c.documents.val, user_query)
         IN IF r.raised
            THEN [pc |-> "done", prompt |-> <<>>, result |-> OnException,
                  bad |-> FALSE, ctx |-> c]
            ELSE [pc |-> "awaiting",
                  prompt |-> BuildPrompt(r.docs, user_query),
                  result |-> NoResult, bad |-> FALSE,
                  ctx |-> [c EXCEPT !.documents = Some(r.docs)]]

\* The embed-and-search lines placed before the try.
OnRetrievalFailureOutsideTry == OnExceptionReraised
\* Lines 91-93 stand inside the try: an exception of encode, of search or of
\* documents[i] takes the handler.
OnRetrievalFailure == OnException

\* rag_query from its entry to its first suspension (or to its return): the
\* position reached, the locals, whether a field holding None was used, and
\* the context it leaves (the code assigns no field of it).  embOK and
\* searchOK: embedder.encode and index.search do not raise.
RagQueryStart(c, user_query, embOK, searchOK) ==
    IF ~InitCheck(c)
    THEN [pc |-> "done", prompt |-> <<>>, result |-> NotInitialized,
          bad |-> FALSE, ctx |-> c]
    ELSE IF \E f \in StartUses : ~c[f].some
    THEN [pc |-> "done", prompt |-> <<>>, result |-> OnException,
          bad |-> TRUE, ctx |-> c]
    ELSE IF ~embOK \/ ~searchOK
    THEN [pc |-> "done", prompt |-> <<>>, result |-> OnRetrievalFailure,
          bad |-> FALSE, ctx |-> c]
    ELSE LET r == RetrieveRag(c.index.val, c.documents.val, user_query)
         IN IF r.raised
            THEN [pc |-> "done", prompt |-> <<>>,
                  result |-> OnRetrievalFailure, bad |-> FALSE, ctx |-> c]
            ELSE [pc |-> "awaiting",
                  prompt |-> BuildPrompt(r.docs, user_query),
                  result |-> NoResult, bad |-> FALSE, ctx |-> c]

\* rag_query from the resumption after generate_content_async to its return.
\* outcome: "text" (a response with text), "raise" (the call raised),
\* "notext" (response.text raises).
RagQueryResume(c, prompt, outcome) ==
    IF \E f \in ResumeUses : ~c[f].some
    THEN [result |-> OnException, bad |-> TRUE]
    ELSE IF outcome = "text"
    THEN [result |-> Answer(prompt), bad |-> FALSE]
    ELSE [result |-> OnException, bad |-> FALSE]

Outcomes == {"text", "raise", "notext"}

\* A call slot: pc, the locals user_query and prompt, the returned value, and
\* what happened to the call: the phases it started and resumed in, whether
\* the embedder and the generative model failed, whether it used a field
\* that held None.
IdleSlot == [pc |-> "idle", text |-> <<>>, prompt |-> <<>>,
             result |-> NoResult, startPhase |-> "none",
             endPhase |-> "none", embOK |-> TRUE, searchOK |-> TRUE,
             outcome |-> "none",
             bad |-> FALSE]

\* ---------------------------------------------- faiss_server.py: actions
\* Module import: load_dotenv, then the check of GEMINI_API_KEY.
Import ==
    /\ UNCHANGED offServer
    /\ phase = "start"
    /\ IF apiKey
       THEN /\ phase' = "imported"
            /\ startupError' = startupError
       ELSE /\ phase' = "failed"
            /\ startupError' = "EnvironmentError"
    /\ UNCHANGED <<apiKey, indexFile, docsFile, ctx, cleanups, calls, qs,
                   loads, exitHow>>

\* app_lifespan up to its yield: rag = RAGContext(); await rag.setup().
LifespanEnter ==
    /\ UNCHANGED offServer
    /\ phase = "imported"
    /\ \E embOK \in BOOLEAN, genOK \in BOOLEAN :
         LET r == SetupResult(NewContext, embOK, genOK) IN
         /\ ctx' = r.ctx
         /\ loads' = IF indexFile.some /\ docsFile.some /\ embOK /\ genOK
                     THEN "ok" ELSE "failed"
         /\ IF LifespanYields(r.raised)
            THEN /\ phase' = "serving"
                 /\ startupError' = startupError
            ELSE /\ phase' = "failed"
                 /\ startupError' = "setup"
    /\ UNCHANGED <<apiKey, indexFile, docsFile, cleanups, calls, qs, exitHow>>

\* A cleanup placed after the yield without try/finally.
CleanupRunsOnReturn(servingRaised) == ~servingRaised

\* try: yield rag / finally: the cleanup runs however the block was left.
CleanupRuns(servingRaised) == TRUE

\* app_lifespan after its yield, the serving having ended by a return or by
\* an exception thrown into the generator: finally: await rag.cleanup().
LifespanExit ==
    /\ UNCHANGED offServer
    /\ phase = "serving"
    /\ \E servingRaised \in BOOLEAN :
         /\ exitHow' = IF servingRaised THEN "exception" ELSE "return"
         /\ IF CleanupRuns(servingRaised)
            THEN /\ ctx' = CleanupResult(ctx)
                 /\ cleanups' = cleanups + 1
            ELSE /\ ctx' = ctx
                 /\ cleanups' = cleanups
    /\ phase' = "torn_down"
    /\ UNCHANGED <<apiKey, indexFile, docsFile, startupError, calls, qs,
                   loads>>

\* A caller that holds the yielded context calls rag_query.
QueryStart(q) ==
    /\ UNCHANGED offServer
    /\ phase \in {"serving", "torn_down"}
    /\ qs[q].pc = "idle"
    /\ calls < MaxCalls
    \* encode is reached only past the check of the fields, search only
    \* after encode returned
    /\ \E user_query \in QueryTexts,
          embOK \in (IF InitCheck(ctx) THEN BOOLEAN ELSE {TRUE}) :
       \E searchOK \in (IF InitCheck(ctx) /\ embOK THEN BOOLEAN ELSE {TRUE}) :
         LET r == RagQueryStart(ctx, user_query, embOK, searchOK) IN
         /\ qs' = [qs EXCEPT ![q] = [pc |-> r.pc, text |-> user_query,
                                     prompt |-> r.prompt,
                                     result |-> r.result,
                                     startPhase |-> phase,
                                     endPhase |-> "none",
                                     embOK |-> embOK,
                                     searchOK |-> searchOK,
                                     outcome |-> "none",
                                     bad |-> r.bad]]
         /\ ctx' = r.ctx
    /\ calls' = calls + 1
    /\ UNCHANGED <<apiKey, indexFile, docsFile, phase, startupError,
                   cleanups, loads, exitHow>>

\* The awaited generate_content_async completes and rag_query returns.
QueryResume(q) ==
    /\ UNCHANGED offServer
    /\ qs[q].pc = "awaiting"
    /\ \E outcome \in Outcomes :
         LET r == RagQueryResume(ctx, qs[q].prompt, outcome) IN
         /\ qs' = [qs EXCEPT ![q].pc = "done", ![q].result = r.result,
                              ![q].endPhase = phase,
                              ![q].outcome = outcome,
                              ![q].bad = r.bad]
    /\ UNCHANGED <<apiKey, indexFile, docsFile, phase, ctx, startupError,
                   cleanups, calls, loads, exitHow>>

\* The caller takes the returned string; the slot is free again.
QueryReturn(q) ==
    /\ UNCHANGED offServer
    /\ qs[q].pc = "done"
    /\ qs' = [qs EXCEPT ![q] = IdleSlot]
    /\ UNCHANGED <<apiKey, indexFile, docsFile, phase, ctx, startupError,
                   cleanups, calls, loads, exitHow>>

\* The persisted files a server may find: an index of n vectors and a
\* metadata list of m chunks, each of the corpus in its order, or no file.
IndexOf(n) == [i \in 1..n |-> Encode(ChunkText(i), TRUE)]
DocsOf(m) == [i \in 1..m |-> [chunk |-> ChunkText(i)]]
\* The sizes tried: none, fewer than TOP_K, more than TOP_K.
FileSizes == {0, 1, 2, MaxChunks}
IndexFiles == {None} \cup {Some(IndexOf(n)) : n \in FileSizes}
DocsFiles == {None} \cup {Some(DocsOf(m)) : m \in FileSizes}

\* No retrieval has run.
NoRetrieval == [raised |-> FALSE, labels |-> <<>>, docs |-> <<>>]
\* safe_parse_llm_output(text): what it returns (val; tier names the return
\* statement that ran) or that it raised.
SafeParse(raised, tier, val) == [raised |-> raised, tier |-> tier, val |-> val]
\* Nothing parsed yet.
NoParse == SafeParse(FALSE, "none", [kind |-> "list", s |-> <<>>, items |-> <<>>])
\* No run of the semantic split.
NoSplit == [pc |-> "none", content |-> <<>>, raw |-> NoParse]
\* No second run of the ingestion script.
NoOther == [pc |-> "none", input |-> <<>>, docs |-> <<>>, metas |-> <<>>,
            emb |-> <<>>]
\* No build is running.
BuildIdle ==
    /\ other = NoOther
    /\ split = NoSplit
    /\ bpc = "start"
    /\ inputMd = <<>>
    /\ bDocs = <<>>
    /\ bMetas = <<>>
    /\ bEmb = <<>>
    /\ bHist = [idx0 |-> None, docs0 |-> None, runs |-> 0,
                idx1 |-> None, docs1 |-> None]

RetrIdle ==
    /\ rPath = "none"
    /\ rIndex = <<>>
    /\ rDocs = <<>>
    /\ rText = <<>>
    /\ rK = TOP_K
    /\ rOut = NoRetrieval
    /\ rQ = Encode(<<0>>, TRUE)
    /\ rPrompt = <<>>

ServerInit ==
    /\ RetrIdle
    /\ BuildIdle
    /\ apiKey \in BOOLEAN
    /\ indexFile \in IndexFiles
    /\ docsFile \in DocsFiles
    /\ phase = "start"
    /\ ctx = NewContext
    /\ startupError = "none"
    /\ cleanups = 0
    /\ calls = 0
    /\ qs = [q \in 1..NQueries |-> IdleSlot]
    /\ loads = "none"
    /\ exitHow = "none"
    /\ FrontIdle

ServerNext ==
    \/ Import
    \/ LifespanEnter
    \/ LifespanExit
    \/ \E q \in 1..NQueries : QueryStart(q)
    \/ \E q \in 1..NQueries : QueryResume(q)
    \/ \E q \in 1..NQueries : QueryReturn(q)

vars == <<serverVars, retrVars, buildVars, frontVars>>
Init == ServerInit
Next == ServerNext
Spec == Init /\ [][Next]_vars

\* ------------------------------------------------ claims: faiss_server.py
\* The context as setup leaves it when every load succeeds.
LoadedContext == SetupResult(NewContext, TRUE, TRUE).ctx

\* C1: a rag_query call that begins after RAGContext.cleanup has run returns
\* the "not initialized" string and uses no context field that holds None.
C1_RejectedAfterCleanup ==
    \A q \in 1..NQueries :
        qs[q].startPhase = "torn_down" =>
            /\ qs[q].pc = "done"
            /\ qs[q].result = NotInitialized
            /\ ~qs[q].bad
C1_Witness ==
    \E q \in 1..NQueries :
        /\ cleanups = 1
        /\ qs[q].startPhase = "torn_down"
        /\ qs[q].pc = "done"

\* C2: the service accepts queries only once setup has returned with all
\* four resources loaded, and every call that went past the initialization
\* check did so after that.
C2_NoQueryBeforeSetup ==
    /\ phase = "serving" =>
           /\ loads = "ok"
           /\ \A f \in Fields : ctx[f].some
    /\ \A q \in 1..NQueries :
           (qs[q].pc # "idle" /\ qs[q].result # NotInitialized) =>
               loads = "ok"
C2_Witness ==
    \E q \in 1..NQueries :
        /\ qs[q].pc = "awaiting"
        /\ loads = "ok"

\* C3: when a load of setup fails, or the credential is missing at import,
\* the service is not ready, the startup error is raised, and no query is
\* served.
C3_FailedStartupServesNothing ==
    (loads = "failed" \/ (phase # "start" /\ ~apiKey)) =>
        /\ phase = "failed"
        /\ startupError # "none"
        /\ calls = 0
        /\ \A q \in 1..NQueries : qs[q] = IdleSlot
C3_Witness ==
    /\ loads = "failed"
    /\ ctx.index.some
    /\ ~ctx.gemini_model.some

\* C4: when the generative model call raises, rag_query returns a string,
\* and the string is the error diagnostic.
C4_ModelFailureReturnsString ==
    \A q \in 1..NQueries :
        (qs[q].pc = "done" /\ qs[q].outcome = "raise") =>
            /\ IsString(qs[q].result)
            /\ qs[q].result.kind = "error"
C4_Witness ==
    \E q \in 1..NQueries :
        /\ qs[q].pc = "done"
        /\ qs[q].outcome = "raise"
        /\ qs[q].startPhase = "serving"

\* C5: every step of a rag_query call leaves the context, the persisted
\* files and the phase unchanged, and the prompt a call builds while the
\* service is ready is the one a freshly loaded context gives for its text.
C5_QueryIsReadOnly ==
    [][(qs' # qs) =>
          /\ ctx' = ctx
          /\ indexFile' = indexFile
          /\ docsFile' = docsFile
          /\ phase' = phase
          /\ \A q \in 1..NQueries :
                (phase = "serving" /\ qs[q].pc = "idle"
                                   /\ qs'[q].pc = "awaiting") =>
                    qs'[q].prompt =
                        RagQueryStart(LoadedContext, qs'[q].text, TRUE, TRUE).prompt
      ]_vars
C5_Witness ==
    /\ phase = "serving"
    /\ calls >= 2
    /\ \E q1, q2 \in 1..NQueries :
          /\ qs[q1].pc = "done" /\ qs[q1].result.kind = "error"
          /\ qs[q2].pc = "awaiting"

\* C6: a call in flight when cleanup runs uses no context field that holds
\* None; resumed, it answers from the prompt it built before suspending.
C6_InFlightUsesNothingReleased ==
    \A q \in 1..NQueries :
        qs[q].startPhase = "serving" =>
            /\ ~qs[q].bad
            /\ (qs[q].pc = "done" /\ qs[q].outcome = "text") =>
                   qs[q].result = Answer(qs[q].prompt)
C6_Witness ==
    \E q \in 1..NQueries :
        /\ qs[q].startPhase = "serving"
        /\ qs[q].endPhase = "torn_down"
        /\ qs[q].pc = "done"
        /\ qs[q].outcome = "text"

\* C9: with an index and a metadata list of zero chunks loaded, a call whose
\* embedding and search succeed reaches the generative model, with an empty context.
C9_EmptyIndexReachesSynthesizer ==
    \A q \in 1..NQueries :
        (/\ qs[q].startPhase = "serving"
         /\ indexFile = Some(<<>>)
         /\ docsFile = Some(<<>>)
         /\ qs[q].embOK
         /\ qs[q].searchOK) =>
            /\ qs[q].pc = "awaiting" \/ qs[q].outcome # "none"
            /\ qs[q].prompt = BuildPrompt(<<>>, qs[q].text)

\* C12: the context of the prompt a call hands to the generative model is
\* the texts of the chunks at the positions the search returned, in that
\* order (best inner product first, no position twice, none left out that
\* scores better), joined by a blank line.
C12_ContextIsChunksInOrder ==
    \A q \in 1..NQueries :
        qs[q].prompt # <<>> =>
            LET index == indexFile.val
                docs == ChunksOf(docsFile.val)
                qv == Encode(qs[q].text, TRUE)
                I == SelectSeq(Search(index, qv, TOP_K), LAMBDA i : i # -1)
                Score(i) == InnerProduct(qv, index[i + 1])
            IN  /\ Len(I) = Min(TOP_K, Len(index))
                /\ \A r, t \in 1..Len(I) :
                      r < t => /\ I[r] # I[t]
                               /\ Score(I[r]) >= Score(I[t])
                /\ \A j \in 0..(Len(index) - 1) :
                      (\A r \in 1..Len(I) : I[r] # j) =>
                          \A r \in 1..Len(I) : Score(I[r]) >= Score(j)
                /\ qs[q].prompt[1].nchunks = Len(I)
                /\ qs[q].prompt[1].context =
                       Join([r \in 1..Len(I) |-> docs[I[r] + 1]], BlankLine)
C12_Witness ==
    \E q \in 1..NQueries :
        /\ qs[q].pc = "awaiting"
        /\ qs[q].prompt[1].nchunks = TOP_K
        /\ qs[q].prompt[1].context #
               Join([r \in 1..TOP_K |-> ChunkText(r)], BlankLine)

\* ------------------------------------------- one retrieval, on its own
MaxK == 7       \* the largest top_k a caller passes

\* What the retrieval actions leave alone.
offRetr == <<serverVars, buildVars, frontVars>>

\* An index of n chunks and its parallel list, a query text, a top_k.
RetrInit ==
    /\ rPath = "none"
    /\ \E n \in 0..MaxChunks :
          /\ rIndex = IndexOf(n)
          /\ rDocs = [i \in 1..n |-> ChunkText(i)]
    /\ rText \in QueryTexts
    /\ rK \in 1..MaxK
    /\ rOut = NoRetrieval
    /\ rQ = Encode(<<0>>, TRUE)
    /\ rPrompt = <<>>
    /\ BuildIdle
    /\ apiKey = TRUE
    /\ indexFile = None
    /\ docsFile = None
    /\ phase = "start"
    /\ ctx = NewContext
    /\ startupError = "none"
    /\ cleanups = 0
    /\ calls = 0
    /\ qs = [q \in 1..NQueries |-> IdleSlot]
    /\ loads = "none"
    /\ exitHow = "none"
    /\ FrontIdle

\* faiss_server.py, rag_query: the retrieval of lines 91-93.
RagRetrieval ==
    /\ rPath = "none"
    /\ rPath' = "rag"
    /\ rK' = TOP_K
    /\ rQ' = QueryVectorRag(rText)
    /\ rOut' = RetrieveRag(rIndex, rDocs, rText)
    /\ rPrompt' = IF rOut'.raised THEN <<>>
                  ELSE BuildPrompt(rOut'.docs, rText)
    /\ UNCHANGED <<rIndex, rDocs, rText>>
    /\ UNCHANGED offRetr

\* vector_search_server.py, query(text, top_k).
VectorRetrieval ==
    /\ rPath = "none"
    /\ rPath' = "vector"
    /\ rOut' = RetrieveVector(rIndex,
                              [i \in 1..Len(rDocs) |-> [chunk |-> rDocs[i]]],
                              rText, rK)
    /\ rQ' = QueryVectorVector(rText)
    /\ UNCHANGED <<rIndex, rDocs, rText, rK, rPrompt>>
    /\ UNCHANGED offRetr

\* faiss-db-retrival-llm.py: the retrieval of lines 40-44.
CliRetrieval ==
    /\ rPath = "none"
    /\ rPath' = "cli"
    /\ rK' = TOP_K
    /\ rQ' = QueryVectorCli(rText)
    /\ rOut' = RetrieveCli(rIndex, rDocs, rText)
    /\ rPrompt' = IF rOut'.raised THEN <<>>
                  ELSE BuildPromptCli(rOut'.docs, rText)
    /\ UNCHANGED <<rIndex, rDocs, rText>>
    /\ UNCHANGED offRetr

RetrNext ==
    \/ RagRetrieval
    \/ VectorRetrieval
    \/ CliRetrieval

SpecRetr == RetrInit /\ [][RetrNext]_vars

\* ------------------------------------------------------ claims: retrieval
\* C7: on every query path the retrieval result has min(K, index size)
\* entries and no error is raised.
C7_ResultLengthIsMin ==
    rPath # "none" =>
        /\ ~rOut.raised
        /\ Len(rOut.docs) = Min(rK, Len(rIndex))

\* C8: on every query path no entry of the retrieval result comes from the
\* "no match" label -1.
C8_SentinelDiscarded ==
    rPath # "none" =>
        \A r \in 1..Len(rOut.labels) : rOut.labels[r] # -1

\* C11: on every query path the query vector is made with the normalization
\* of the stored vectors: with one setting of normalize_embeddings, the
\* query vector is the encoding of the query text and every stored vector
\* the encoding of its chunk.
C11_SameNormalization ==
    rPath # "none" =>
        \E norm \in BOOLEAN :
            /\ rQ = Encode(rText, norm)
            /\ \A i \in 1..Len(rIndex) : rIndex[i] = Encode(rDocs[i], norm)

\* C13: every prompt a query path builds tells the model to say so when the
\* context is insufficient, and with no chunk retrieved its context is empty.
C13_PromptAdmitsInsufficientContext ==
    (rPath # "none" /\ rPrompt # <<>>) =>
        /\ "say_if_context_insufficient" \in rPrompt[1].instruction
        /\ Len(rOut.docs) = 0 => rPrompt[1].context = <<>>

\* ------------------------------------------- faissdb_ingestion.py: build
MaxLines == 4   \* lines of the input markdown file
MaxRuns == 2    \* runs of the ingestion script on one input file

\* A line of the markdown file: 0 is a blank line, n > 0 a line of text (the
\* token n), -n the heading line "### n".  The token 7 is the token 1 in
\* another letter case: all-MiniLM-L6-v2 lowercases, so both encode alike
\* (Dir and Mag agree on tokens that differ by 6).
Lines == {-2, -1, 0, 1, 2, 7}
\* Inside a chunk's text: "\n" between the lines of a block, "  \n" between
\* blocks that the splitter merges.
NewLine == <<-1>>
AggSep == <<-2>>

\* MarkdownHeaderTextSplitter.split_text with headers_to_split_on ###:
\* a heading line closes the block before it and sets the metadata (0: no
\* heading yet) of what follows; a blank line closes the block; a line of
\* text joins the open block.  Heading lines are stripped from the content.
RECURSIVE SplitLines(_, _, _, _)
SplitLines(lines, cur, meta, out) ==
    LET flushed == IF cur # <<>>
                   THEN Append(out, [content |-> cur, metadata |-> meta])
                   ELSE out
    IN  IF lines = <<>> THEN flushed
        ELSE IF Head(lines) < 0
        THEN SplitLines(Tail(lines), <<>>, 0 - Head(lines), flushed)
        ELSE IF Head(lines) > 0
        THEN SplitLines(Tail(lines),
                        IF cur = <<>> THEN <<Head(lines)>>
                        ELSE cur \o NewLine \o <<Head(lines)>>,
                        meta, out)
        ELSE SplitLines(Tail(lines), <<>>, meta, flushed)

\* aggregate_lines_to_chunks: consecutive blocks of equal metadata merge.
RECURSIVE Aggregate(_, _)
Aggregate(blocks, out) ==
    IF blocks = <<>> THEN out
    ELSE IF Len(out) > 0 /\ out[Len(out)].metadata = Head(blocks).metadata
    THEN Aggregate(Tail(blocks),
                   [out EXCEPT ![Len(out)].content =
                        @ \o AggSep \o Head(blocks).content])
    ELSE Aggregate(Tail(blocks), Append(out, Head(blocks)))

SplitText(lines) == Aggregate(SplitLines(lines, <<>>, 0, <<>>), <<>>)

\* str.strip(): the text without its leading and trailing whitespace.
RECURSIVE Strip(_)
Strip(t) ==
    IF t = <<>> THEN t
    ELSE IF Head(t) <= 0 THEN Strip(Tail(t))
    ELSE IF t[Len(t)] <= 0 THEN Strip(SubSeq(t, 1, Len(t) - 1))
    ELSE t

\* load_and_split_md: docs and metas, each from the splits.
DocsOfSplits(splits) ==
    [i \in 1..Len(splits) |-> Strip(splits[i].content)]
\* metas for the splits under a heading only.
MetasOfTitledSplits(splits) ==
    LET titled == SelectSeq(splits, LAMBDA d : d.metadata # 0)
    IN  [i \in 1..Len(titled) |-> [chunk |-> Strip(titled[i].content)]]
MetasOfSplits(splits) ==
    [i \in 1..Len(splits) |-> [chunk |-> Strip(splits[i].content)]]

\* model.encode(docs, normalize_embeddings=True)
EncodeAll(docs) == [i \in 1..Len(docs) |-> Encode(docs[i], TRUE)]

\* What the build actions leave alone.
offBuild == <<retrVars, apiKey, phase, ctx, startupError, cleanups, calls,
              qs, loads, exitHow, frontVars, split>>

\* __main__: docs, metas = load_and_split_md(input_md_path)
LoadAndSplit ==
    /\ bpc = "start"
    /\ bDocs' = DocsOfSplits(SplitText(inputMd))
    /\ bMetas' = MetasOfSplits(SplitText(inputMd))
    /\ bpc' = "split"
    /\ UNCHANGED <<inputMd, bEmb, bHist, other, indexFile, docsFile>>
    /\ UNCHANGED offBuild

\* build_faiss_index with the index file opened for writing before the
\* encode.
EncodeDocsAfterTruncate ==
    /\ bpc = "split"
    /\ \E encOK \in BOOLEAN :
          IF encOK /\ Len(bDocs) > 0
          THEN /\ bEmb' = EncodeAll(bDocs)
               /\ bpc' = "encoded"
          ELSE /\ bEmb' = bEmb
               /\ bpc' = "failed"
    /\ indexFile' = Some(<<>>)
    /\ UNCHANGED <<inputMd, bDocs, bMetas, bHist, other, docsFile>>
    /\ UNCHANGED offBuild

\* build_faiss_index up to index.add: the batched encode, which may raise;
\* embeddings.shape[1] raises when there is no chunk.
EncodeDocs ==
    /\ bpc = "split"
    /\ \E encOK \in BOOLEAN :
          IF encOK /\ Len(bDocs) > 0
          THEN /\ bEmb' = EncodeAll(bDocs)
               /\ bpc' = "encoded"
          ELSE /\ bEmb' = bEmb
               /\ bpc' = "failed"
    /\ UNCHANGED <<inputMd, bDocs, bMetas, bHist, other, indexFile, docsFile>>
    /\ UNCHANGED offBuild

\* faiss.write_index adding to the vectors already in the file.
WriteIndexAppending ==
    /\ bpc = "encoded"
    /\ indexFile' = Some((IF indexFile.some THEN indexFile.val ELSE <<>>)
                            \o bEmb)
    /\ bpc' = "indexed"
    /\ UNCHANGED <<inputMd, bDocs, bMetas, bEmb, bHist, other, docsFile>>
    /\ UNCHANGED offBuild

\* build_faiss_index: faiss.write_index(index, index_path), which replaces
\* the file.
WriteIndex ==
    /\ bpc = "encoded"
    /\ indexFile' = Some(bEmb)
    /\ bpc' = "indexed"
    /\ UNCHANGED <<inputMd, bDocs, bMetas, bEmb, bHist, other, docsFile>>
    /\ UNCHANGED offBuild

\* __main__: json.dump(metas, f) into meta_path opened with "w"; the run is
\* complete.
WriteMeta ==
    /\ bpc = "indexed"
    /\ docsFile' = Some(bMetas)
    /\ bpc' = "done"
    /\ bHist' = IF bHist.runs = 0
                THEN [bHist EXCEPT !.runs = 1, !.idx1 = indexFile,
                                   !.docs1 = Some(bMetas)]
                ELSE [bHist EXCEPT !.runs = @ + 1]
    /\ UNCHANGED <<inputMd, bDocs, bMetas, bEmb, other, indexFile>>
    /\ UNCHANGED offBuild

\* The script run again on the same NPP.md after a completed run, before
\* the server is started.
Rebuild ==
    /\ bpc = "done"
    /\ bHist.runs < MaxRuns
    /\ phase = "start"
    /\ bpc' = "start"
    /\ bDocs' = <<>>
    /\ bMetas' = <<>>
    /\ bEmb' = <<>>
    /\ bHist' = [bHist EXCEPT !.idx0 = indexFile, !.docs0 = docsFile]
    /\ UNCHANGED <<inputMd, other, indexFile, docsFile>>
    /\ UNCHANGED offBuild

\* rag_query's retrieval on the reloaded files, asked the text of a chunk.
SelfQuery ==
    /\ bpc = "done"
    /\ phase = "serving"
    /\ rPath = "none"
    /\ \E i \in 1..Len(ctx.documents.val) :
          /\ rText' = ctx.documents.val[i]
          /\ rQ' = QueryVectorRag(ctx.documents.val[i])
          /\ rOut' = RetrieveRag(ctx.index.val, ctx.documents.val,
                                 ctx.documents.val[i])
    /\ rPath' = "rag"
    /\ rIndex' = ctx.index.val
    /\ rDocs' = ctx.documents.val
    /\ rK' = TOP_K
    /\ rPrompt' = IF rOut'.raised THEN <<>>
                  ELSE BuildPrompt(rOut'.docs, rText')
    /\ UNCHANGED offRetr

\* The server started on the files of a completed build.
ReloadImport == bpc = "done" /\ Import
ReloadSetup == bpc = "done" /\ LifespanEnter

RECURSIVE SeqsUpTo(_, _)
\* The sequences over S of length 1..n.
SeqsUpTo(S, n) ==
    IF n = 0 THEN {}
    ELSE LET shorter == SeqsUpTo(S, n - 1)
         IN  {<<x>> : x \in S} \cup shorter
               \cup {Append(t, x) : t \in shorter, x \in S}

BuildInit ==
    /\ RetrIdle
    /\ bpc = "start"
    /\ inputMd \in SeqsUpTo(Lines, MaxLines)
    /\ bDocs = <<>>
    /\ bMetas = <<>>
    /\ bEmb = <<>>
    /\ apiKey = TRUE
    /\ indexFile \in {None, Some(IndexOf(1))}
    /\ docsFile \in {None, Some(DocsOf(1))}
    /\ bHist = [idx0 |-> indexFile, docs0 |-> docsFile, runs |-> 0,
                idx1 |-> None, docs1 |-> None]
    /\ other = NoOther
    /\ split = NoSplit
    /\ phase = "start"
    /\ ctx = NewContext
    /\ startupError = "none"
    /\ cleanups = 0
    /\ calls = 0
    /\ qs = [q \in 1..NQueries |-> IdleSlot]
    /\ loads = "none"
    /\ exitHow = "none"
    /\ FrontIdle

BuildNext ==
    \/ LoadAndSplit
    \/ EncodeDocs
    \/ WriteIndex
    \/ WriteMeta
    \/ ReloadImport
    \/ ReloadSetup
    \/ Rebuild
    \/ SelfQuery

SpecBuild == BuildInit /\ [][BuildNext]_vars

\* --------------------------------------------------------- claims: build
\* C10: after a completed build the persisted index, the persisted metadata
\* and the chunk sequence have one length, the vector at each position is
\* the embedding of the chunk the metadata holds at that position, and a
\* server that loads both files holds them in that order.
C10_IndexParallelToMetadata ==
    bpc = "done" =>
        /\ Len(bDocs) > 0
        /\ indexFile.some /\ docsFile.some
        /\ Len(indexFile.val) = Len(bDocs)
        /\ Len(docsFile.val) = Len(bDocs)
        /\ \A i \in 1..Len(bDocs) :
              /\ docsFile.val[i].chunk = bDocs[i]
              /\ indexFile.val[i] = Encode(docsFile.val[i].chunk, TRUE)
        /\ phase = "serving" =>
              /\ ctx.index.val = indexFile.val
              /\ ctx.documents.val = bDocs
C10_Witness ==
    /\ bpc = "done"
    /\ phase = "serving"
    /\ Len(bDocs) >= 2
    /\ bDocs[1] # bDocs[2]
    /\ indexFile.val[1] # indexFile.val[2]

\* ------------------------- faissdb_ingestion.py: two runs at the same time
MaxPairLines == 2   \* lines of the input file where two tools run

\* What the steps of the second run leave alone.
offOther == <<retrVars, apiKey, phase, ctx, startupError, cleanups, calls,
              qs, loads, exitHow, frontVars, bpc, inputMd, bDocs, bMetas,
              bEmb, bHist,
              split>>

\* The second run's __main__: docs, metas = load_and_split_md(input_md_path)
OtherLoadAndSplit ==
    /\ other.pc = "start"
    /\ other' = [other EXCEPT !.pc = "split",
                              !.docs = DocsOfSplits(SplitText(other.input)),
                              !.metas = MetasOfSplits(SplitText(other.input))]
    /\ UNCHANGED <<indexFile, docsFile>>
    /\ UNCHANGED offOther

\* The second run's build_faiss_index up to index.add.
OtherEncodeDocs ==
    /\ other.pc = "split"
    /\ \E encOK \in BOOLEAN :
          other' = IF encOK /\ Len(other.docs) > 0
                   THEN [other EXCEPT !.pc = "encoded",
                                      !.emb = EncodeAll(other.docs)]
                   ELSE [other EXCEPT !.pc = "failed"]
    /\ UNCHANGED <<indexFile, docsFile>>
    /\ UNCHANGED offOther

\* The second run's faiss.write_index(index, index_path)
OtherWriteIndex ==
    /\ other.pc = "encoded"
    /\ indexFile' = Some(other.emb)
    /\ other' = [other EXCEPT !.pc = "indexed"]
    /\ UNCHANGED docsFile
    /\ UNCHANGED offOther

\* The second run's json.dump(metas, f)
OtherWriteMeta ==
    /\ other.pc = "indexed"
    /\ docsFile' = Some(other.metas)
    /\ other' = [other EXCEPT !.pc = "done"]
    /\ UNCHANGED indexFile
    /\ UNCHANGED offOther

\* Two runs started in one directory; a line may have been added to NPP.md
\* between the moments they read it.
PairInit ==
    /\ RetrIdle
    /\ bpc = "start"
    /\ inputMd \in SeqsUpTo(Lines, MaxPairLines)
    /\ bDocs = <<>>
    /\ bMetas = <<>>
    /\ bEmb = <<>>
    /\ apiKey = TRUE
    /\ indexFile \in {None, Some(IndexOf(1))}
    /\ docsFile \in {None, Some(DocsOf(1))}
    /\ bHist = [idx0 |-> indexFile, docs0 |-> docsFile, runs |-> 0,
                idx1 |-> None, docs1 |-> None]
    /\ \E lines \in {inputMd} \cup {Append(inputMd, l) : l \in Lines} :
          other = [NoOther EXCEPT !.pc = "start", !.input = lines]
    /\ split = NoSplit
    /\ phase = "start"
    /\ ctx = NewContext
    /\ startupError = "none"
    /\ cleanups = 0
    /\ calls = 0
    /\ qs = [q \in 1..NQueries |-> IdleSlot]
    /\ loads = "none"
    /\ exitHow = "none"
    /\ FrontIdle

PairNext ==
    \/ LoadAndSplit
    \/ EncodeDocs
    \/ WriteIndex
    \/ WriteMeta
    \/ OtherLoadAndSplit
    \/ OtherEncodeDocs
    \/ OtherWriteIndex
    \/ OtherWriteMeta

SpecPair == PairInit /\ [][PairNext]_vars

\* ------------------------------------ temp_chunking.py: texts and regexes
\* A text of the semantic split is the sequence of its code points.
\* str.strip(): the whitespace below U+0100.
PyWhitespace == {9, 10, 11, 12, 13, 28, 29, 30, 31, 32, 133, 160}
\* The characters of strip('` \n').
Leftovers == {96, 32, 10}
\* The literal parts of prefix_patterns, in lower case: ```json, ```,
\* "here is the json", "json".
FenceJsonPattern == <<96, 96, 96, 106, 115, 111, 110>>
FencePattern == <<96, 96, 96>>
HereIsPattern == <<104, 101, 114, 101, 32, 105, 115, 32, 116, 104, 101, 32,
                   106, 115, 111, 110>>
JsonPattern == <<106, 115, 111, 110>>
\* The class [:\-\\s] of the raw patterns: colon, hyphen, backslash and the
\* letter s (the backslash is escaped, so \\s is not the whitespace class).
TailClass == {58, 45, 92, 115}

\* re.IGNORECASE on the letters A-Z.
Lower(c) == IF c \in 65..90 THEN c + 32 ELSE c

RECURSIVE LStrip(_, _)
LStrip(t, chars) ==
    IF t # <<>> /\ Head(t) \in chars THEN LStrip(Tail(t), chars) ELSE t
RECURSIVE RStrip(_, _)
RStrip(t, chars) ==
    IF t # <<>> /\ t[Len(t)] \in chars
    THEN RStrip(SubSeq(t, 1, Len(t) - 1), chars)
    ELSE t
\* str.strip(chars)
StripChars(t, chars) == RStrip(LStrip(t, chars), chars)

\* The pattern's literal matches at position i, whatever the letter case.
MatchesAt(t, i, lit) ==
    /\ i + Len(lit) - 1 <= Len(t)
    /\ \A k \in 1..Len(lit) : Lower(t[i + k - 1]) = lit[k]
RECURSIVE SkipClass(_, _, _)
\* The end of the greedy [class]* from position i.
SkipClass(t, i, class) ==
    IF i <= Len(t) /\ Lower(t[i]) \in class
    THEN SkipClass(t, i + 1, class)
    ELSE i
RECURSIVE ReSubFrom(_, _, _, _)
\* re.sub(lit + '[class]*', '', t, flags=re.IGNORECASE) from position i: every
\* match, wherever it stands in the text, is removed.
ReSubFrom(t, i, lit, class) ==
    IF i > Len(t) THEN <<>>
    ELSE IF MatchesAt(t, i, lit)
    THEN ReSubFrom(t, SkipClass(t, i + Len(lit), class), lit, class)
    ELSE <<t[i]>> \o ReSubFrom(t, i + 1, lit, class)
ReSub(t, lit, class) == ReSubFrom(t, 1, lit, class)

\* The four replace calls: typographic quotes to straight quotes.
ReplaceQuotes(t) ==
    [i \in 1..Len(t) |->
        CASE t[i] \in {8220, 8221} -> 34
          [] t[i] \in {8216, 8217} -> 39
          [] OTHER -> t[i]]

\* Lines 26-39 of safe_parse_llm_output: the text handed to json.loads.
CleanText(text) ==
    LET t0 == StripChars(text, PyWhitespace)
        t1 == ReSub(t0, FenceJsonPattern, {})
        t2 == ReSub(t1, FencePattern, {})
        t3 == ReSub(t2, HereIsPattern, TailClass)
        t4 == ReSub(t3, JsonPattern, TailClass)
    IN  ReplaceQuotes(StripChars(t4, Leftovers))

\* ------------------------------------------- temp_chunking.py: json.loads
\* A JSON value: a string (its code points in s), a number or a literal (its
\* source text in s), a list (items) or an object (items: its keys).
JsonValue(kind, s, items) == [kind |-> kind, s |-> s, items |-> items]
JsonStr(s) == JsonValue("str", s, <<>>)
JsonList(items) == JsonValue("list", <<>>, items)
\* A scan that failed, and one that read val and stopped before position pos.
NoScan == [ok |-> FALSE, val |-> JsonStr(<<>>), pos |-> 0]
Scanned(val, pos) == [ok |-> TRUE, val |-> val, pos |-> pos]

JsonWhitespace == {32, 9, 10, 13}
Digits == 48..57
\* The escapes of a JSON string: \" \\ \/ \b \f \n \r \t
JsonEscaped == {34, 92, 47, 98, 102, 110, 114, 116}
JsonEscape(c) == CASE c = 98 -> 8
                   [] c = 102 -> 12
                   [] c = 110 -> 10
                   [] c = 114 -> 13
                   [] c = 116 -> 9
                   [] OTHER -> c
\* null, true, false, NaN, Infinity, -Infinity
JsonLiterals == {<<110, 117, 108, 108>>, <<116, 114, 117, 101>>,
                 <<102, 97, 108, 115, 101>>, <<78, 97, 78>>,
                 <<73, 110, 102, 105, 110, 105, 116, 121>>,
                 <<45, 73, 110, 102, 105, 110, 105, 116, 121>>}

RECURSIVE SkipSet(_, _, _)
SkipSet(t, i, set) ==
    IF i >= 1 /\ i <= Len(t) /\ t[i] \in set
    THEN SkipSet(t, i + 1, set)
    ELSE i
\* The code point at position i, 0 outside the text.
CharAt(t, i) == IF i >= 1 /\ i <= Len(t) THEN t[i] ELSE 0

RECURSIVE ScanString(_, _, _)
\* py_scanstring (strict) from the position after the opening quote; the
\* \uXXXX escape is not in the alphabet of the modelled texts.
ScanString(t, i, acc) ==
    IF i > Len(t) THEN NoScan
    ELSE IF t[i] = 34 THEN Scanned(JsonStr(acc), i + 1)
    ELSE IF t[i] = 92
    THEN IF CharAt(t, i + 1) \in JsonEscaped
         THEN ScanString(t, i + 2, Append(acc, JsonEscape(t[i + 1])))
         ELSE NoScan
    ELSE IF t[i] < 32 THEN NoScan
    ELSE ScanString(t, i + 1, Append(acc, t[i]))

\* NUMBER_RE: (-?(?:0|[1-9]\d*))(\.\d+)?([eE][-+]?\d+)? ; 0 when no match.
NumberEnd(t, i) ==
    LET j0 == IF CharAt(t, i) = 45 THEN i + 1 ELSE i
        j1 == IF CharAt(t, j0) = 48 THEN j0 + 1 ELSE SkipSet(t, j0, Digits)
        j2 == IF CharAt(t, j1) = 46 /\ CharAt(t, j1 + 1) \in Digits
              THEN SkipSet(t, j1 + 1, Digits)
              ELSE j1
        k == IF CharAt(t, j2 + 1) \in {43, 45} THEN j2 + 2 ELSE j2 + 1
        j3 == IF CharAt(t, j2) \in {101, 69} /\ CharAt(t, k) \in Digits
              THEN SkipSet(t, k, Digits)
              ELSE j2
    IN  IF CharAt(t, j0) \in Digits THEN j3 ELSE 0

MatchesExact(t, i, lit) ==
    /\ i + Len(lit) - 1 <= Len(t)
    /\ SubSeq(t, i, i + Len(lit) - 1) = lit

RECURSIVE ScanOnce(_, _)
RECURSIVE ScanItems(_, _, _)
RECURSIVE ScanMembers(_, _, _)
\* JSONArray after the opening bracket and the first item's whitespace.
ScanItems(t, i, acc) ==
    LET item == ScanOnce(t, i)
        j == SkipSet(t, item.pos, JsonWhitespace)
    IN  IF ~item.ok THEN NoScan
        ELSE IF CharAt(t, j) = 93
        THEN Scanned(JsonList(Append(acc, item.val)), j + 1)
        ELSE IF CharAt(t, j) = 44
        THEN ScanItems(t, SkipSet(t, j + 1, JsonWhitespace),
                       Append(acc, item.val))
        ELSE NoScan
\* JSONObject from the opening quote of a key.
ScanMembers(t, i, keys) ==
    LET key == IF CharAt(t, i) = 34 THEN ScanString(t, i + 1, <<>>)
               ELSE NoScan
        c == SkipSet(t, key.pos, JsonWhitespace)
        val == IF key.ok /\ CharAt(t, c) = 58
               THEN ScanOnce(t, SkipSet(t, c + 1, JsonWhitespace))
               ELSE NoScan
        j == SkipSet(t, val.pos, JsonWhitespace)
    IN  IF ~val.ok THEN NoScan
        ELSE IF CharAt(t, j) = 125
        THEN Scanned(JsonValue("obj", <<>>, Append(keys, key.val)), j + 1)
        ELSE IF CharAt(t, j) = 44
        THEN ScanMembers(t, SkipSet(t, j + 1, JsonWhitespace),
                         Append(keys, key.val))
        ELSE NoScan
\* scan_once: the value that starts at position i.
ScanOnce(t, i) ==
    LET c == CharAt(t, i)
        afterOpen == SkipSet(t, i + 1, JsonWhitespace)
        lits == {l \in JsonLiterals : MatchesExact(t, i, l)}
    IN  IF c = 34 THEN ScanString(t, i + 1, <<>>)
        ELSE IF c = 123
        THEN IF CharAt(t, afterOpen) = 125
             THEN Scanned(JsonValue("obj", <<>>, <<>>), afterOpen + 1)
             ELSE ScanMembers(t, afterOpen, <<>>)
        ELSE IF c = 91
        THEN IF CharAt(t, afterOpen) = 93
             THEN Scanned(JsonList(<<>>), afterOpen + 1)
             ELSE ScanItems(t, afterOpen, <<>>)
        ELSE IF NumberEnd(t, i) # 0
        THEN Scanned(JsonValue("num", SubSeq(t, i, NumberEnd(t, i) - 1), <<>>),
                     NumberEnd(t, i))
        ELSE IF lits # {}
        THEN LET l == CHOOSE l \in lits : TRUE
             IN  Scanned(JsonValue("lit", l, <<>>), i + Len(l))
        ELSE NoScan

\* json.loads(t): one value between optional whitespace, or JSONDecodeError
\* (ok = FALSE).
JsonLoads(t) ==
    LET v == ScanOnce(t, SkipSet(t, 1, JsonWhitespace))
    IN  IF v.ok /\ SkipSet(t, v.pos, JsonWhitespace) = Len(t) + 1
        THEN v
        ELSE NoScan

\* ------------------------------ temp_chunking.py: the two fallback tiers
RECURSIVE QuotedBodyEnd(_, _)
\* Where (?:[^"\\]|\\.)* stops from position i: at a quote, at the end, or at
\* a backslash with no character (other than a newline) after it.
QuotedBodyEnd(t, i) ==
    IF i > Len(t) \/ t[i] = 34 THEN i
    ELSE IF t[i] = 92
    THEN IF i + 1 <= Len(t) /\ t[i + 1] # 10
         THEN QuotedBodyEnd(t, i + 2)
         ELSE i
    ELSE QuotedBodyEnd(t, i + 1)
RECURSIVE FindAllQuoted(_, _)
\* re.findall(r'"((?:[^"\\]|\\.)*)"', t) from position i.
FindAllQuoted(t, i) ==
    IF i > Len(t) THEN <<>>
    ELSE LET e == QuotedBodyEnd(t, i + 1)
         IN  IF t[i] = 34 /\ CharAt(t, e) = 34
             THEN <<SubSeq(t, i + 1, e - 1)>> \o FindAllQuoted(t, e + 1)
             ELSE FindAllQuoted(t, i + 1)

\* encode('utf-8') read back as Latin-1, for a code point below U+10000.
Utf8Bytes(c) ==
    IF c < 128 THEN <<c>>
    ELSE IF c < 2048 THEN <<192 + (c \div 64), 128 + (c % 64)>>
    ELSE <<224 + (c \div 4096), 128 + ((c \div 64) % 64), 128 + (c % 64)>>
\* The one-letter escapes of unicode_escape: \\ \' \" \a \b \f \n \r \t \v
PyEscaped == {92, 39, 34, 97, 98, 102, 110, 114, 116, 118}
PyEscape(c) == CASE c = 97 -> 7
                 [] c = 98 -> 8
                 [] c = 102 -> 12
                 [] c = 110 -> 10
                 [] c = 114 -> 13
                 [] c = 116 -> 9
                 [] c = 118 -> 11
                 [] OTHER -> c
OctalDigits == 48..55
\* The escapes that need a well-formed tail: \x \u \U \N
PyLongEscapes == {120, 117, 85, 78}
RECURSIVE OctalValue(_, _, _)
OctalValue(t, i, j) ==
    IF i >= j THEN 0 ELSE 8 * OctalValue(t, i, j - 1) + (t[j - 1] - 48)
RECURSIVE UnicodeEscape(_, _)
\* m.encode('utf-8').decode('unicode_escape') from position i.  \x, \u, \U
\* and \N raise in every text of the model (no hex digits or character names
\* follow them); an unknown escape is kept as it stands.
UnicodeEscape(t, i) ==
    IF i > Len(t) THEN [raised |-> FALSE, s |-> <<>>]
    ELSE IF t[i] # 92
    THEN LET rest == UnicodeEscape(t, i + 1)
         IN  [rest EXCEPT !.s = Utf8Bytes(t[i]) \o @]
    ELSE IF i = Len(t) \/ t[i + 1] \in PyLongEscapes
    THEN [raised |-> TRUE, s |-> <<>>]
    ELSE IF t[i + 1] = 10 THEN UnicodeEscape(t, i + 2)
    ELSE IF t[i + 1] \in PyEscaped
    THEN LET rest == UnicodeEscape(t, i + 2)
         IN  [rest EXCEPT !.s = <<PyEscape(t[i + 1])>> \o @]
    ELSE IF t[i + 1] \in OctalDigits
    THEN LET e == Min(SkipSet(t, i + 1, OctalDigits), i + 4)
             rest == UnicodeEscape(t, e)
         IN  [rest EXCEPT !.s = <<OctalValue(t, i + 1, e)>> \o @]
    ELSE LET rest == UnicodeEscape(t, i + 2)
         IN  [rest EXCEPT !.s = <<92>> \o Utf8Bytes(t[i + 1]) \o @]

\* Lines 48-49: the non-blank quoted substrings, unescaped and stripped.
QuotedTier(t) ==
    LET matches == SelectSeq(FindAllQuoted(t, 1),
                             LAMBDA m : StripChars(m, PyWhitespace) # <<>>)
        decoded == [k \in 1..Len(matches) |-> UnicodeEscape(matches[k], 1)]
    IN  [raised |-> \E k \in 1..Len(matches) : decoded[k].raised,
         cleaned |-> [k \in 1..Len(matches) |->
                        JsonStr(StripChars(decoded[k].s, PyWhitespace))]]

RECURSIVE SplitNewlines(_, _)
\* t.split('\n'), cur being the piece read so far.
SplitNewlines(t, cur) ==
    IF t = <<>> THEN <<cur>>
    ELSE IF Head(t) = 10 THEN <<cur>> \o SplitNewlines(Tail(t), <<>>)
    ELSE SplitNewlines(Tail(t), Append(cur, Head(t)))
HeadingMarker == <<35, 35, 35>>
\* Line 55: the stripped lines that start with ###.
HeadingTier(t) ==
    LET stripped == [k \in 1..Len(SplitNewlines(t, <<>>)) |->
                        StripChars(SplitNewlines(t, <<>>)[k], PyWhitespace)]
        kept == SelectSeq(stripped, LAMBDA l : MatchesExact(l, 1, HeadingMarker))
    IN  [k \in 1..Len(kept) |-> JsonStr(kept[k])]

\* The parse with the quoted substrings tried before strict JSON parsing.
safe_parse_quoted_first(text) ==
    LET t == CleanText(text)
        loaded == JsonLoads(t)
        quoted == QuotedTier(t)
    IN  IF quoted.raised THEN SafeParse(TRUE, "quoted", JsonList(<<>>))
        ELSE IF quoted.cleaned # <<>>
        THEN SafeParse(FALSE, "quoted", JsonList(quoted.cleaned))
        ELSE IF loaded.ok THEN SafeParse(FALSE, "json", loaded.val)
        ELSE SafeParse(FALSE, "headings", JsonList(HeadingTier(t)))
safe_parse_llm_output(text) ==
    LET t == CleanText(text)
        loaded == JsonLoads(t)
        quoted == QuotedTier(t)
    IN  IF loaded.ok THEN SafeParse(FALSE, "json", loaded.val)
        ELSE IF quoted.raised THEN SafeParse(TRUE, "quoted", JsonList(<<>>))
        ELSE IF quoted.cleaned # <<>>
        THEN SafeParse(FALSE, "quoted", JsonList(quoted.cleaned))
        ELSE SafeParse(FALSE, "headings", JsonList(HeadingTier(t)))

\* ------------------------- temp_chunking.py: split_markdown_semantically
MaxItems == 2   \* strings in the JSON list of a model output

\* Chunk strings a model may return: "### A\nfoo", "### B\nbar", "JSON a",
\* "```a" and a word in typographic quotes.
ChunkStrings == {<<35, 35, 35, 32, 65, 10, 102, 111, 111>>,
                 <<35, 35, 35, 32, 66, 10, 98, 97, 114>>,
                 <<74, 83, 79, 78, 32, 97>>,
                 <<96, 96, 96, 97>>,
                 <<8220, 97, 8221>>}
RECURSIVE JsonText(_)
\* The text of a JSON string: newline, quote and backslash escaped.
JsonText(s) ==
    IF s = <<>> THEN <<>>
    ELSE (CASE Head(s) = 10 -> <<92, 110>>
            [] Head(s) \in {34, 92} -> <<92, Head(s)>>
            [] OTHER -> <<Head(s)>>) \o JsonText(Tail(s))
RECURSIVE JsonItems(_)
JsonItems(L) ==
    IF L = <<>> THEN <<>>
    ELSE <<34>> \o JsonText(Head(L)) \o <<34>>
         \o (IF Len(L) > 1 THEN <<44, 32>> ELSE <<>>) \o JsonItems(Tail(L))
\* The JSON list of strings the prompt asks for.
JsonArray(L) == <<91>> \o JsonItems(L) \o <<93>>
\* The lists of up to n chunk strings.
ChunkLists(n) == {<<>>} \cup SeqsUpTo(ChunkStrings, n)

\* How a model wraps its answer: a "Here is the JSON:" line or none, and a
\* ```json fence, a bare fence or none.
Preambles == {<<>>, <<72, 101, 114, 101, 32, 105, 115, 32, 116, 104, 101, 32,
                      74, 83, 79, 78, 58, 10>>}
Fenced(kind, body) ==
    CASE kind = "json" -> <<96, 96, 96, 106, 115, 111, 110, 10>> \o body
                          \o <<10, 96, 96, 96>>
      [] kind = "bare" -> <<96, 96, 96, 10>> \o body \o <<10, 96, 96, 96>>
      [] OTHER -> body
WellFormedOutputs ==
    {p \o Fenced(k, JsonArray(L)) :
        p \in Preambles, k \in {"json", "bare", "none"},
        L \in ChunkLists(MaxItems)}
\* Answers that are not a JSON list of strings: a refusal in plain words, bare
\* heading lines, a list with a trailing comma, a blank string after a comma,
\* an escape Python rejects, a number, an object, a string, a list of a
\* number, a nested list, a list of an empty string, an escaped newline in
\* quotes after which a comma stands.
OtherOutputs ==
    {<<73, 32, 99, 97, 110, 110, 111, 116>>,
     <<35, 35, 35, 32, 65, 10, 102, 111, 111, 10, 35, 35, 35, 32, 66>>,
     <<91, 34, 97, 34, 44, 93>>,
     <<34, 32, 34, 44>>,
     <<34, 92, 78, 34, 44>>,
     <<49>>,
     <<123, 34, 97, 34, 58, 32, 34, 98, 34, 125>>,
     <<34, 97, 98, 34>>,
     <<91, 49, 93>>,
     <<91, 91, 34, 97, 34, 93, 93>>,
     <<91, 34, 34, 93>>,
     <<34, 92, 110, 34, 44>>}
ModelOutputs == WellFormedOutputs \cup OtherOutputs


\* A chunk as it stands in the written file: a string by its code points,
\* any other JSON value by a 0 and its source text.
ChunkOfValue(v) == IF v.kind = "str" THEN v.s ELSE <<0>> \o v.s
\* for chunk in raw_chunks: the items of a list, the characters of a string,
\* the keys of an object; a number or a literal is not iterable.
Iterable(v) == v.kind \in {"list", "str", "obj"}
IterationOf(v) ==
    IF v.kind = "str" THEN [k \in 1..Len(v.s) |-> JsonStr(<<v.s[k]>>)]
    ELSE v.items
\* Line 85: structured_chunks
StructuredChunks(raw_chunks) ==
    [k \in 1..Len(IterationOf(raw_chunks)) |->
        [chunk |-> ChunkOfValue(IterationOf(raw_chunks)[k])]]

\* What the steps of the semantic split leave alone.
offSplit == <<retrVars, apiKey, phase, ctx, startupError, cleanups, calls,
              qs, loads, exitHow, frontVars, bpc, inputMd, bDocs, bMetas,
              bEmb, bHist,
              other>>

\* Lines 76-79: model.generate_content(prompt), which may raise, and the
\* response text.
SplitGenerate ==
    /\ split.pc = "start"
    /\ \E genOK \in BOOLEAN :
          split' = [split EXCEPT !.pc = IF genOK THEN "generated" ELSE "failed"]
    /\ UNCHANGED <<indexFile, docsFile>>
    /\ UNCHANGED offSplit

\* Line 82: raw_chunks = safe_parse_llm_output(content); an exception is
\* logged and raised again.
SplitParse ==
    /\ split.pc = "generated"
    /\ split' = [split EXCEPT
                    !.raw = safe_parse_llm_output(split.content),
                    !.pc = IF safe_parse_llm_output(split.content).raised
                           THEN "failed" ELSE "parsed"]
    /\ UNCHANGED <<indexFile, docsFile>>
    /\ UNCHANGED offSplit

\* Lines 85-88: the list comprehension (TypeError on a value that is not
\* iterable), then open(output_path, "w") and json.dump.
SplitWrite ==
    /\ split.pc = "parsed"
    /\ IF Iterable(split.raw.val)
       THEN /\ docsFile' = Some(StructuredChunks(split.raw.val))
            /\ split' = [split EXCEPT !.pc = "done"]
       ELSE /\ docsFile' = docsFile
            /\ split' = [split EXCEPT !.pc = "failed"]
    /\ UNCHANGED indexFile
    /\ UNCHANGED offSplit

\* The script started on a model output, beside the files of an earlier
\* build or none.
SplitInit ==
    /\ RetrIdle
    /\ bpc = "start"
    /\ inputMd = <<>>
    /\ bDocs = <<>>
    /\ bMetas = <<>>
    /\ bEmb = <<>>
    /\ other = NoOther
    /\ apiKey = TRUE
    /\ indexFile \in {None, Some(IndexOf(1))}
    /\ docsFile \in {None, Some(DocsOf(1))}
    /\ bHist = [idx0 |-> indexFile, docs0 |-> docsFile, runs |-> 0,
                idx1 |-> None, docs1 |-> None]
    /\ \E content \in ModelOutputs :
          split = [NoSplit EXCEPT !.pc = "start", !.content = content]
    /\ phase = "start"
    /\ ctx = NewContext
    /\ startupError = "none"
    /\ cleanups = 0
    /\ calls = 0
    /\ qs = [q \in 1..NQueries |-> IdleSlot]
    /\ loads = "none"
    /\ exitHow = "none"
    /\ FrontIdle

SplitNext ==
    \/ SplitGenerate
    \/ SplitParse
    \/ SplitWrite

SpecSplit == SplitInit /\ [][SplitNext]_vars

\* ------------- faissdb_ingestion.py and temp_chunking.py in one directory
\* No run of the one tool is under way while the other takes a step.
BuildAtRest == bpc \in {"start", "done", "failed"}
SplitAtRest == split.pc \in {"start", "done", "failed"}

ToolsLoadAndSplit == SplitAtRest /\ LoadAndSplit
ToolsEncodeDocs == SplitAtRest /\ EncodeDocs
ToolsWriteIndex == SplitAtRest /\ WriteIndex
ToolsWriteMeta == SplitAtRest /\ WriteMeta
ToolsRebuild == SplitAtRest /\ Rebuild
ToolsSplitGenerate == BuildAtRest /\ SplitGenerate
ToolsSplitParse == BuildAtRest /\ SplitParse
ToolsSplitWrite == BuildAtRest /\ SplitWrite

\* The answers of the model tried beside the ingestion runs.
ToolOutputs == OtherOutputs \cup {JsonArray(L) : L \in ChunkLists(1)}

\* Both scripts about to run in a directory without index and chunk file.
ToolsInit ==
    /\ RetrIdle
    /\ bpc = "start"
    /\ inputMd \in SeqsUpTo(Lines, MaxPairLines)
    /\ bDocs = <<>>
    /\ bMetas = <<>>
    /\ bEmb = <<>>
    /\ other = NoOther
    /\ apiKey = TRUE
    /\ indexFile = None
    /\ docsFile = None
    /\ bHist = [idx0 |-> None, docs0 |-> None, runs |-> 0,
                idx1 |-> None, docs1 |-> None]
    /\ \E content \in ToolOutputs :
          split = [NoSplit EXCEPT !.pc = "start", !.content = content]
    /\ phase = "start"
    /\ ctx = NewContext
    /\ startupError = "none"
    /\ cleanups = 0
    /\ calls = 0
    /\ qs = [q \in 1..NQueries |-> IdleSlot]
    /\ loads = "none"
    /\ exitHow = "none"
    /\ FrontIdle

ToolsNext ==
    \/ ToolsLoadAndSplit
    \/ ToolsEncodeDocs
    \/ ToolsWriteIndex
    \/ ToolsWriteMeta
    \/ ToolsRebuild
    \/ ToolsSplitGenerate
    \/ ToolsSplitParse
    \/ ToolsSplitWrite

SpecTools == ToolsInit /\ [][ToolsNext]_vars

\* The file contents before the running (or last) run started.
FilesAsAtStart == /\ indexFile = bHist.idx0
                  /\ docsFile = bHist.docs0

\* C17: when the embedding step of a build fails the run aborts with the
\* persisted index file (and the metadata file) exactly as it was before the
\* run started: nothing partial is written.
C17_FailedBuildLeavesIndex == bpc = "failed" => FilesAsAtStart
\* A run over one or more chunks failed while encoding, with an index file
\* already in place.
C17_Witness ==
    /\ bpc = "failed"
    /\ Len(bDocs) > 0
    /\ bHist.idx0.some
    /\ indexFile = bHist.idx0

\* C19 as stated: in an index built from chunks of pairwise distinct content,
\* a query with the text of chunk i returns chunk i first.
C19_SelfRetrievalTop1 ==
    (/\ rPath = "rag"
     /\ bpc = "done"
     /\ \A i, j \in 1..Len(rDocs) : i # j => rDocs[i] # rDocs[j])
        => /\ ~rOut.raised
           /\ Len(rOut.docs) >= 1
           /\ rOut.docs[1] = rText
\* C19 amended: the first chunk returned has the embedding of chunk i, and
\* it is chunk i whenever no chunk of other content has that embedding.
C19_SelfRetrievalTop1DistinctEmbeddings ==
    (rPath = "rag" /\ bpc = "done")
        => /\ ~rOut.raised
           /\ Len(rOut.docs) >= 1
           /\ Encode(rOut.docs[1], TRUE) = Encode(rText, TRUE)
           /\ (\A j \in 1..Len(rDocs) :
                  rDocs[j] # rText => rIndex[j] # Encode(rText, TRUE))
                => rOut.docs[1] = rText
\* The second of several chunks, of an embedding unlike the first's, was
\* asked and came back first.
C19_Witness ==
    /\ rPath = "rag"
    /\ bpc = "done"
    /\ Len(rDocs) >= 2
    /\ rText = rDocs[2]
    /\ rIndex[1] # rIndex[2]
    /\ rOut.docs[1] = rText

\* C20: a second completed run on the same input computes the same chunk
\* sequence and leaves the index file and the metadata file as the first
\* completed run left them.
C20_RebuildIdempotent ==
    (bpc = "done" /\ bHist.runs >= 2)
        => /\ indexFile = bHist.idx1
           /\ docsFile = bHist.docs1
           /\ bDocs = ChunksOf(bHist.docs1.val)
\* A second run completed over several unlike chunks.
C20_Witness ==
    /\ bpc = "done"
    /\ bHist.runs = 2
    /\ Len(bDocs) >= 2
    /\ bDocs[1] # bDocs[2]
    /\ indexFile = bHist.idx1

\* C18: when two runs of the build overlap and both complete, the index file
\* and the metadata file left behind come from one and the same run.
C18_FilesFromOneBuild ==
    (bpc = "done" /\ other.pc = "done")
        => \/ /\ indexFile = Some(bEmb)
              /\ docsFile = Some(bMetas)
           \/ /\ indexFile = Some(other.emb)
              /\ docsFile = Some(other.metas)

\* A model answer made of the preamble line, then a ```json
\* fence around the JSON list of the strings of L.
PreambledFence(L) ==
    <<72, 101, 114, 101, 32, 105, 115, 32, 116, 104, 101, 32, 74, 83, 79, 78,
      58, 10>> \o Fenced("json", JsonArray(L))
\* The parse ran on the model's answer.
Parsed == split.raw.tier # "none"

\* C14: for an answer made of the "Here is the JSON:" preamble and a ```json
\* fence around a JSON list of strings, safe_parse_llm_output returns exactly
\* the strings of that list, in order.
C14_FencedArrayParsesExactly ==
    \A L \in ChunkLists(MaxItems) :
        (Parsed /\ split.content = PreambledFence(L))
            => /\ ~split.raw.raised
               /\ split.raw.val = JsonList([k \in 1..Len(L) |-> JsonStr(L[k])])

\* C15: the parse either returns a non-empty list or raises; it never
\* returns an empty sequence when all three tiers yield nothing.
C15_NonEmptyOrRaises ==
    (Parsed /\ ~split.raw.raised)
        => /\ split.raw.val.kind = "list"
           /\ split.raw.val.items # <<>>

\* C16: when no tier salvages the answer, the run aborts and the chunk file
\* and the index file stay as they were before it.
C16_UnsalvageableLeavesFiles ==
    (/\ split.pc \in {"done", "failed"}
     /\ split.raw.tier = "headings"
     /\ split.raw.val.items = <<>>)
        => /\ split.pc = "failed"
           /\ FilesAsAtStart

\* C21: no entry whose "chunk" is empty or only whitespace is written to the
\* metadata file by the semantic split.
C21_NoBlankChunkWritten ==
    split.pc = "done"
        => \A k \in 1..Len(docsFile.val) :
              StripChars(docsFile.val[k].chunk, PyWhitespace) # <<>>

\* C22: a query whose vector is not normalized as the stored vectors are is
\* rejected instead of answered.
C22_MismatchRejected ==
    (rPath # "none" /\ rQ # Encode(rText, TRUE)) => rOut.raised

\* The cleaned text of the answer that was parsed.
CleanedContent == CleanText(split.content)
\* C23: the quoted substrings are returned only when strict JSON parsing
\* failed and a non-blank quoted substring exists; the heading lines only
\* when strict parsing failed and no non-blank quoted substring exists.
C23_TiersInOrder ==
    (Parsed /\ ~split.raw.raised)
        => LET nonblank == {k \in 1..Len(FindAllQuoted(CleanedContent, 1)) :
                              \E j \in 1..Len(FindAllQuoted(CleanedContent, 1)[k]) :
                                  FindAllQuoted(CleanedContent, 1)[k][j]
                                      \notin PyWhitespace}
           IN  /\ split.raw.tier = "json" <=> JsonLoads(CleanedContent).ok
               /\ split.raw.tier = "quoted"
                     => /\ ~JsonLoads(CleanedContent).ok
                        /\ nonblank # {}
                        /\ Len(split.raw.val.items) = Cardinality(nonblank)
               /\ split.raw.tier = "headings"
                     => /\ ~JsonLoads(CleanedContent).ok
                        /\ nonblank = {}
                        /\ split.raw.val.items = HeadingTier(CleanedContent)
\* Bare heading lines were answered: strict parsing and the quoted tier gave
\* nothing and the heading lines were returned.
C23_Witness ==
    /\ Parsed
    /\ split.raw.tier = "headings"
    /\ Len(split.raw.val.items) = 2

\* C27: whatever safe_parse_llm_output returns is a list whose elements are
\* all strings.
C27_ResultIsListOfStrings ==
    (Parsed /\ ~split.raw.raised)
        => /\ split.raw.val.kind = "list"
           /\ \A k \in 1..Len(split.raw.val.items) :
                 split.raw.val.items[k].kind = "str"

\* C28: applied to the JSON text of a list L of non-empty strings, the parse
\* returns L unchanged.
C28_IdentityOnWellFormed ==
    \A L \in ChunkLists(MaxItems) :
        (Parsed /\ split.content = JsonArray(L))
            => /\ ~split.raw.raised
               /\ split.raw.val = JsonList([k \in 1..Len(L) |-> JsonStr(L[k])])

\* C24: once the lifespan has ended after a successful setup, by a return or
\* by an exception of the serving, cleanup has run exactly once and the four
\* fields of the context are None; before that, and when setup failed,
\* cleanup has not run.
C24_CleanupExactlyOnce ==
    /\ phase = "torn_down" => /\ cleanups = 1
                              /\ \A f \in Fields : ~ctx[f].some
    /\ phase # "torn_down" => cleanups = 0
\* The serving ended with an exception after all four loads succeeded.
C24_Witness ==
    /\ phase = "torn_down"
    /\ exitHow = "exception"
    /\ loads = "ok"
    /\ cleanups = 1

\* C26: every call of rag_query that has returned, whatever failed inside
\* it (the encode, the search, a position outside the chunk list, the model
\* call, a response without text), has returned a string; nothing is raised
\* to the caller.
C26_QueryAlwaysReturnsString ==
    \A q \in 1..NQueries :
        qs[q].pc = "done"
            => /\ IsString(qs[q].result)
               /\ qs[q].result.kind # "raise"
\* A call on a ready context whose index search raised returned the error
\* string.
C26_Witness ==
    \E q \in 1..NQueries :
        /\ qs[q].pc = "done"
        /\ qs[q].startPhase = "serving"
        /\ qs[q].embOK
        /\ ~qs[q].searchOK
        /\ qs[q].result = OnException

\* C25: whenever no run of either tool is under way or has failed, an index
\* file and a chunk file that both exist have the same length, and position
\* i of the index is the embedding of chunk i.
C25_ToolsKeepFilesParallel ==
    (/\ bpc \in {"start", "done"}
     /\ split.pc \in {"start", "done"}
     /\ indexFile.some
     /\ docsFile.some)
        => /\ Len(indexFile.val) = Len(docsFile.val)
           /\ \A i \in 1..Len(docsFile.val) :
                 /\ docsFile.val[i].chunk # <<>>
                 /\ indexFile.val[i] = Encode(docsFile.val[i].chunk, TRUE)

\* ------------------------------------------- try_server.py: async_main
\* The server, the retrieval paths and the offline tools at rest.
ServerIdle ==
    /\ apiKey = TRUE
    /\ indexFile = None
    /\ docsFile = None
    /\ phase = "start"
    /\ ctx = NewContext
    /\ startupError = "none"
    /\ cleanups = 0
    /\ calls = 0
    /\ qs = [q \in 1..NQueries |-> IdleSlot]
    /\ loads = "none"
    /\ exitHow = "none"

offClient == <<serverVars, retrVars, buildVars, session_state, chat>>

\* The events runner.run_async may yield, by kind, and how many of them one
\* run is followed for.
EventKinds == {"function_call", "function_response", "text"}
MaxEvents == 3

\* How the event loop can end: the generator is exhausted, it raises an
\* Exception, or the task is cancelled at the await (CancelledError is not
\* an Exception).
RunEndings == {"exhausted", "exception", "cancelled"}

\* session = await session_service.create_session(...); on an exception
\* async_main logs and returns.
ClientCreateSession ==
    /\ client.pc = "start"
    /\ \E ok \in BOOLEAN :
          client' = [client EXCEPT !.pc = IF ok THEN "session" ELSE "done"]
    /\ UNCHANGED offClient

\* root_agent, toolset = await get_agent_async(): MCPToolset(...) first,
\* LlmAgent(...) second, each re-raising its exception; async_main logs the
\* exception and returns, the toolset being a local of get_agent_async.
ClientGetAgent ==
    /\ client.pc = "session"
    /\ \E toolsetOK, agentOK \in BOOLEAN :
          client' = [client EXCEPT
                        !.toolset = IF toolsetOK THEN "open" ELSE "none",
                        !.pc = IF toolsetOK /\ agentOK THEN "agent"
                                                       ELSE "done"]
    /\ UNCHANGED offClient

\* runner = Runner(...); on an exception async_main logs and returns.
ClientMakeRunner ==
    /\ client.pc = "agent"
    /\ \E ok \in BOOLEAN :
          client' = [client EXCEPT !.pc = IF ok THEN "running" ELSE "done"]
    /\ UNCHANGED offClient

\* async for event in events_async: logger.info(event)
ClientReceiveEvent ==
    /\ client.pc = "running"
    /\ Len(client.events) < MaxEvents
    /\ \E event \in EventKinds :
          client' = [client EXCEPT !.events = Append(@, event)]
    /\ UNCHANGED offClient

\* The loop ends. An Exception is logged and async_main goes on to the
\* close; a cancellation leaves async_main at once.
ClientRunEnds ==
    /\ client.pc = "running"
    /\ \E ending \in RunEndings :
          client' = [client EXCEPT
                        !.pc = IF ending = "cancelled" THEN "done"
                                                       ELSE "closing"]
    /\ UNCHANGED offClient

\* await toolset.close(), an exception of which is logged; "Cleanup
\* complete."
ClientClose ==
    /\ client.pc = "closing"
    /\ \E ok \in BOOLEAN :
          client' = [client EXCEPT
                        !.closes = @ + 1,
                        !.toolset = IF ok THEN "closed" ELSE @,
                        !.pc = "done"]
    /\ UNCHANGED offClient

\* asyncio.run(async_main()) is about to start.
ClientInit ==
    /\ ServerIdle
    /\ RetrIdle
    /\ BuildIdle
    /\ client = [pc |-> "start", toolset |-> "none", closes |-> 0,
                 events |-> <<>>]
    /\ session_state = <<>>
    /\ chat = [retries |-> 0, raised |-> "none", user_input |-> None]

ClientNext ==
    \/ ClientCreateSession
    \/ ClientGetAgent
    \/ ClientMakeRunner
    \/ ClientReceiveEvent
    \/ ClientRunEnds
    \/ ClientClose

SpecClient == ClientInit /\ [][ClientNext]_vars

\* C29: when async_main has ended on a path on which the MCP toolset was
\* created, toolset.close() has been called.
C29_ToolsetClosedOnEveryPath ==
    (client.pc = "done" /\ client.toolset # "none") => client.closes > 0

\* ------------------------------------------------ app.py: the intake chat
\* st.session_state is a function from the keys that are set to their
\* values. A dict is a function on its keys, {} is <<>>, None is None and a
\* string value v is Some(v); the booleans are stored as they are.
\* The texts typed into the chat and the texts app.py holds, as code points.
TextNewUser == <<78, 101, 119, 32, 85, 115, 101, 114>>  \* New User
TextExistingUser == <<69, 120, 105, 115, 116, 105, 110, 103, 32, 85, 115, 101, 114>>  \* Existing User
TextYes == <<89, 101, 115>>  \* Yes
TextNo == <<78, 111>>  \* No
TextHello == <<72, 101, 108, 108, 111>>  \* Hello
TextWhatIsNpp == <<87, 104, 97, 116, 32, 105, 115, 32, 78, 80, 80, 63>>  \* What is NPP?
TextJaneDoe == <<74, 97, 110, 101, 32, 68, 111, 101>>  \* Jane Doe
TextJ == <<74>>  \* J
TextBornAdult == <<49, 57, 57, 48, 45, 48, 49, 45, 48, 49>>  \* 1990-01-01
TextBornMinor == <<50, 48, 50, 48, 45, 48, 49, 45, 48, 49>>  \* 2020-01-01
TextFuture == <<50, 48, 51, 48, 45, 48, 49, 45, 48, 49>>  \* 2030-01-01
TextPhone == <<53, 53, 53, 49, 50, 51, 52, 53, 54, 55>>  \* 5551234567
TextShortPhone == <<53, 53, 53, 45, 49, 50, 51, 52>>  \* 555-1234
TextEmail == <<97, 64, 98, 46, 99, 111>>  \* a@b.co
TextNoTld == <<97, 64, 98>>  \* a@b
TextMale == <<77, 97, 108, 101>>  \* Male
TextFemaleLower == <<102, 101, 109, 97, 108, 101>>  \* female
TextNonBinary == <<78, 111, 110, 45, 98, 105, 110, 97, 114, 121>>  \* Non-binary
TextPreferNotToSay == <<80, 114, 101, 102, 101, 114, 32, 110, 111, 116, 32, 116, 111, 32, 115, 97, 121>>  \* Prefer not to say
TextOther == <<79, 116, 104, 101, 114>>  \* Other
TextSkip == <<83, 107, 105, 112>>  \* Skip
TextNone == <<78, 111, 110, 101>>  \* None
TextSame == <<83, 97, 109, 101>>  \* Same
TextMorning == <<49, 48, 58, 51, 48, 32, 65, 77>>  \* 10:30 AM
TextNoTime == <<50, 53, 58, 48, 48>>  \* 25:00
TextSubmit == <<83, 117, 98, 109, 105, 116>>  \* Submit
TextBack == <<66, 97, 99, 107>>  \* Back
TextStartOver == <<83, 116, 97, 114, 116, 32, 79, 118, 101, 114>>  \* Start Over
TextFemale == <<70, 101, 109, 97, 108, 101>>  \* Female
TextTempName == <<84, 101, 109, 112, 32, 78, 97, 109, 101>>  \* Temp Name
TextTempBorn == <<50, 48, 48, 48, 45, 48, 49, 45, 48, 49>>  \* 2000-01-01
TextTempPhone == <<49, 50, 51, 52, 53, 54, 55, 56, 57, 48>>  \* 1234567890
TextTempEmail == <<116, 101, 109, 112, 64, 101, 120, 97, 109, 112, 108, 101, 46, 99, 111, 109>>  \* temp@example.com
TextTempProvider == <<84, 101, 109, 112, 32, 80, 114, 111, 118, 105, 100, 101, 114>>  \* Temp Provider
TextTempPolicy == <<84, 69, 77, 80, 49, 50, 51, 52, 53>>  \* TEMP12345
TextTempReason == <<84, 101, 109, 112, 32, 82, 101, 97, 115, 111, 110>>  \* Temp Reason
TextNine == <<48, 57, 58, 48, 48, 58, 48, 48>>  \* 09:00:00

\* process_response: the keywords of a general question.
Keywords ==
    {<<119, 104, 97, 116, 32, 105, 115>>,
     <<116, 101, 108, 108, 32, 109, 101, 32, 97, 98, 111, 117, 116>>,
     <<113, 117, 101, 115, 116, 105, 111, 110, 32, 97, 98, 111, 117, 116>>,
     <<112, 114, 105, 118, 97, 99, 121>>,
     <<104, 105, 112, 97, 97>>,
     <<110, 112, 112>>}
\* skip, none, same, yes, no, submit, back, start over, new user, existing user
WordSkip == <<115, 107, 105, 112>>
WordNone == <<110, 111, 110, 101>>
WordSame == <<115, 97, 109, 101>>
WordYes == <<121, 101, 115>>
WordNo == <<110, 111>>
WordSubmit == <<115, 117, 98, 109, 105, 116>>
WordBack == <<98, 97, 99, 107>>
WordStartOver == <<115, 116, 97, 114, 116, 32, 111, 118, 101, 114>>
WordNewUser == <<110, 101, 119, 32, 117, 115, 101, 114>>
WordExistingUser == <<101, 120, 105, 115, 116, 105, 110, 103, 32, 117, 115, 101, 114>>
WordAm == <<97, 109>>
WordPm == <<112, 109>>

offChat == <<serverVars, retrVars, buildVars, client>>

Put(d, k, v) == (k :> v) @@ d
\* d.get(k, {}) and d.setdefault(k, {})
Get(d, k) == IF k \in DOMAIN d THEN d[k] ELSE <<>>
\* The section is replaced by a dict that holds the one field.
StoreAlone(info, path, field, value) ==
    IF Len(path) = 1
    THEN Put(info, path[1], Put(<<>>, field, value))
    ELSE Put(info, path[1], Put(<<>>, path[2], Put(<<>>, field, value)))
\* info.setdefault(path[1], {})[field] = value, one level deeper for a path
\* of two keys
Store(info, path, field, value) ==
    IF Len(path) = 1
    THEN Put(info, path[1], Put(Get(info, path[1]), field, value))
    ELSE Put(info, path[1],
             Put(Get(info, path[1]), path[2],
                 Put(Get(Get(info, path[1]), path[2]), field, value)))

\* str.lower, str.upper and str.title on the letters A-Z and a-z
LowerText(text) == [i \in 1..Len(text) |-> Lower(text[i])]
Upper(c) == IF c \in 97..122 THEN c - 32 ELSE c
UpperText(text) == [i \in 1..Len(text) |-> Upper(text[i])]
Cased(c) == c \in 65..90 \/ c \in 97..122
Title(text) ==
    [i \in 1..Len(text) |->
        IF i > 1 /\ Cased(text[i - 1]) THEN Lower(text[i])
                                       ELSE Upper(text[i])]
\* sub in text
Contains(text, sub) ==
    \E i \in 0..(Len(text) - Len(sub)) :
        SubSeq(text, i + 1, i + Len(sub)) = sub

IsDigit(c) == c \in 48..57
IsLetter(c) == Cased(c)
AllDigits(text) == \A i \in 1..Len(text) : IsDigit(text[i])
RECURSIVE DecimalValue(_)
DecimalValue(text) ==
    IF text = <<>> THEN 0
    ELSE 10 * DecimalValue(SubSeq(text, 1, Len(text) - 1))
         + (text[Len(text)] - 48)
\* n written with width digits
Pad(n, width) ==
    [i \in 1..width |-> 48 + ((n \div (10 ^ (width - i))) % 10)]

\* date.today(), as <<year, month, day>>
Today == <<2026, 11, 2>>

LeapYear(y) == (y % 4 = 0 /\ y % 100 # 0) \/ y % 400 = 0
DaysIn(y, mo) ==
    IF mo = 2 THEN (IF LeapYear(y) THEN 29 ELSE 28)
    ELSE IF mo \in {4, 6, 9, 11} THEN 30 ELSE 31
\* date.fromisoformat on the form YYYY-MM-DD (the other ISO forms newer
\* interpreters accept are not among the texts typed): None for ValueError
DateFromIsoformat(text) ==
    IF /\ Len(text) = 10
       /\ text[5] = 45
       /\ text[8] = 45
       /\ AllDigits(SubSeq(text, 1, 4) \o SubSeq(text, 6, 7)
                    \o SubSeq(text, 9, 10))
    THEN LET y == DecimalValue(SubSeq(text, 1, 4))
             mo == DecimalValue(SubSeq(text, 6, 7))
             d == DecimalValue(SubSeq(text, 9, 10))
         IN IF y >= 1 /\ mo \in 1..12 /\ d \in 1..DaysIn(y, mo)
            THEN Some(<<y, mo, d>>) ELSE None
    ELSE None
\* date.isoformat
DateIsoformat(d) ==
    Pad(d[1], 4) \o <<45>> \o Pad(d[2], 2) \o <<45>> \o Pad(d[3], 2)
\* a < b on dates
DateBefore(a, b) ==
    \/ a[1] < b[1]
    \/ a[1] = b[1] /\ a[2] < b[2]
    \/ a[1] = b[1] /\ a[2] = b[2] /\ a[3] < b[3]

MIN_AGE_FOR_CONSENT == 18
\* PatientDemographics.validate_date_of_birth
validate_date_of_birth(v) ==
    /\ ~DateBefore(Today, v)
    /\ Today[1] - v[1]
         - (IF Today[2] < v[2] \/ (Today[2] = v[2] /\ Today[3] < v[3])
            THEN 1 ELSE 0) >= MIN_AGE_FOR_CONSENT
\* PrimaryInsurance.validate_subscriber_dob
validate_subscriber_dob(v) == ~DateBefore(Today, v)
\* AppointmentDetails.validate_desired_appointment_date
validate_desired_appointment_date(v) == ~DateBefore(v, Today)

\* datetime.strptime(text, "%I:%M %p").time(): hour 1-12 in one or two
\* digits, minute in one or two digits, white space, AM or PM
Strptime12(text) ==
    LET Parses(c, e) ==
            /\ c \in {2, 3}
            /\ e \in {c + 1, c + 2}
            /\ Len(text) >= e + 3
            /\ text[c] = 58
            /\ AllDigits(SubSeq(text, 1, c - 1))
            /\ DecimalValue(SubSeq(text, 1, c - 1)) \in 1..12
            /\ AllDigits(SubSeq(text, c + 1, e))
            /\ DecimalValue(SubSeq(text, c + 1, e)) \in 0..59
            /\ \A i \in (e + 1)..(Len(text) - 2) : text[i] \in PyWhitespace
            /\ SubSeq(text, Len(text) - 1, Len(text))
                  \in {<<65, 77>>, <<80, 77>>}
        Splits == {s \in (1..Len(text)) \X (1..Len(text)) : Parses(s[1], s[2])}
    IN IF Splits = {} THEN None
       ELSE LET s == CHOOSE s \in Splits : TRUE
                h == DecimalValue(SubSeq(text, 1, s[1] - 1)) % 12
                mi == DecimalValue(SubSeq(text, s[1] + 1, s[2]))
                pm == text[Len(text) - 1] = 80
            IN Some(<<IF pm THEN h + 12 ELSE h, mi, 0>>)
\* time.fromisoformat on the forms HH, HH:MM and HH:MM:SS
TimeFromIsoformat(text) ==
    IF /\ Len(text) \in {2, 5, 8}
       /\ \A i \in 1..Len(text) :
             IF i \in {3, 6} THEN text[i] = 58 ELSE IsDigit(text[i])
    THEN LET h == DecimalValue(SubSeq(text, 1, 2))
             mi == IF Len(text) >= 5 THEN DecimalValue(SubSeq(text, 4, 5))
                                     ELSE 0
             s == IF Len(text) = 8 THEN DecimalValue(SubSeq(text, 7, 8))
                                   ELSE 0
         IN IF h <= 23 /\ mi <= 59 /\ s <= 59 THEN Some(<<h, mi, s>>)
                                              ELSE None
    ELSE None
\* time.isoformat
TimeIsoformat(t) ==
    Pad(t[1], 2) \o <<58>> \o Pad(t[2], 2) \o <<58>> \o Pad(t[3], 2)
\* process_response, get_desired_appointment_time: the two ways of reading
AppointmentTime(user_input) ==
    IF \/ Contains(LowerText(user_input), WordAm)
       \/ Contains(LowerText(user_input), WordPm)
    THEN Strptime12(UpperText(user_input))
    ELSE TimeFromIsoformat(user_input)

\* pattern=r"^\d{10}$" with min_length = max_length = 10
PhonePattern(text) == Len(text) = 10 /\ AllDigits(text)
\* pattern=r"^[a-zA-Z0-9._%+-]+@[a-zA-Z0-9.-]+\.[a-zA-Z]{2,}$"
EmailLocal(c) == IsLetter(c) \/ IsDigit(c) \/ c \in {46, 95, 37, 43, 45}
EmailDomain(c) == IsLetter(c) \/ IsDigit(c) \/ c \in {46, 45}
EmailPattern(text) ==
    \E at \in 2..Len(text), dot \in 4..Len(text) :
        /\ text[at] = 64
        /\ text[dot] = 46
        /\ at + 1 < dot
        /\ Len(text) - dot >= 2
        /\ \A i \in 1..(at - 1) : EmailLocal(text[i])
        /\ \A i \in (at + 1)..(dot - 1) : EmailDomain(text[i])
        /\ \A i \in (dot + 1)..Len(text) : IsLetter(text[i])

\* ask_next_question: the state each branch leaves the conversation in (a
\* waiting state stays where it is); a state without a branch is not listed.
AskNext ==
    [initial_greeting |-> "user_type_selection",
     user_type_selection |-> "user_type_selection",
     display_npp |-> "npp_agreement",
     npp_agreement |-> "npp_agreement",
     ask_full_legal_name |-> "get_full_legal_name",
     get_full_legal_name |-> "get_full_legal_name",
     ask_date_of_birth |-> "get_date_of_birth",
     get_date_of_birth |-> "get_date_of_birth",
     ask_phone_number |-> "get_phone_number",
     get_phone_number |-> "get_phone_number",
     ask_email_address |-> "get_email_address",
     get_email_address |-> "get_email_address",
     ask_gender |-> "get_gender",
     get_gender |-> "get_gender",
     ask_address |-> "get_address",
     get_address |-> "get_address",
     ask_preferred_language |-> "get_preferred_language",
     get_preferred_language |-> "get_preferred_language",
     ask_emergency_contact_name |-> "get_emergency_contact_name",
     get_emergency_contact_name |-> "get_emergency_contact_name",
     ask_emergency_contact_relationship |-> "get_emergency_contact_relationship",
     ask_emergency_contact_phone |-> "get_emergency_contact_phone",
     get_emergency_contact_phone |-> "get_emergency_contact_phone",
     ask_primary_insurance_provider |-> "get_primary_insurance_provider",
     get_primary_insurance_provider |-> "get_primary_insurance_provider",
     ask_primary_insurance_policy_number |-> "get_primary_insurance_policy_number",
     get_primary_insurance_policy_number |-> "get_primary_insurance_policy_number",
     ask_primary_insurance_group_number |-> "get_primary_insurance_group_number",
     ask_primary_insurance_subscriber_name |-> "get_primary_insurance_subscriber_name",
     ask_primary_insurance_subscriber_dob |-> "get_primary_insurance_subscriber_dob",
     get_primary_insurance_subscriber_dob |-> "get_primary_insurance_subscriber_dob",
     ask_secondary_insurance_yn |-> "get_secondary_insurance_yn",
     get_secondary_insurance_yn |-> "get_secondary_insurance_yn",
     ask_secondary_insurance_provider |-> "get_secondary_insurance_provider",
     get_secondary_insurance_provider |-> "get_secondary_insurance_provider",
     ask_secondary_insurance_policy_number |-> "get_secondary_insurance_policy_number",
     get_secondary_insurance_policy_number |-> "get_secondary_insurance_policy_number",
     ask_reason_for_visit_brief |-> "get_reason_for_visit_brief",
     get_reason_for_visit_brief |-> "get_reason_for_visit_brief",
     ask_financial_responsibility |-> "get_financial_responsibility",
     get_financial_responsibility |-> "get_financial_responsibility",
     ask_medical_history_opt_in |-> "get_medical_history_opt_in",
     get_medical_history_opt_in |-> "get_medical_history_opt_in",
     ask_reason_for_appointment_full |-> "get_reason_for_appointment_full",
     ask_known_allergies |-> "get_known_allergies",
     ask_current_medications |-> "get_current_medications",
     ask_major_past_medical_conditions |-> "get_major_past_medical_conditions",
     ask_referring_physician |-> "get_referring_physician",
     ask_desired_appointment_date |-> "get_desired_appointment_date",
     get_desired_appointment_date |-> "get_desired_appointment_date",
     ask_desired_appointment_time |-> "get_desired_appointment_time",
     get_desired_appointment_time |-> "get_desired_appointment_time",
     ask_preferred_provider |-> "get_preferred_provider",
     ask_special_needs |-> "get_special_needs",
     ask_consent_for_treatment |-> "get_consent_for_treatment",
     get_consent_for_treatment |-> "get_consent_for_treatment",
     ask_hipaa_privacy_acknowledged |-> "get_hipaa_privacy_acknowledged",
     get_hipaa_privacy_acknowledged |-> "get_hipaa_privacy_acknowledged",
     review_and_submit |-> "await_final_submission",
     await_final_submission |-> "await_final_submission",
     submission_complete |-> "offer_start_over",
     existing_user_info |-> "offer_start_over"]

\* A call that returned, and one that an exception left.
Returned(ss) == [ss |-> ss, raised |-> "none"]
Raised(ss, exception) == [ss |-> ss, raised |-> exception]

\* st.session_state.messages.append({"role": "assistant", "content": ...}):
\* the content is named by its kind and the state it was written in.
Say(ss, say) ==
    Put(ss, "messages",
        Append(ss.messages,
               [role |-> "assistant",
                content |-> [say |-> say, at |-> ss.conversation_state]]))
\* st.session_state.conversation_state = state
Goto(ss, state) == Put(ss, "conversation_state", state)

\* ask_next_question(): reading st.session_state.new_patient_info (and
\* npp_content in display_npp) raises AttributeError when the key is not set.
ask_next_question(ss) ==
    IF "new_patient_info" \notin DOMAIN ss
    THEN Raised(ss, "AttributeError")
    ELSE LET current_state == ss.conversation_state
         IN IF current_state \notin DOMAIN AskNext
            THEN Returned(ss)
            ELSE IF current_state = "display_npp"
                    /\ "npp_content" \notin DOMAIN ss
            THEN Raised(ss, "AttributeError")
            ELSE Returned(Goto(IF current_state = "review_and_submit"
                               THEN Say(Say(ss, "prompt"), "summary")
                               ELSE Say(ss, "prompt"),
                               AskNext[current_state]))

\* No input is taken for a general question.
GeneralQuestionNever(user_input) == FALSE
\* process_response: any(keyword in user_input.lower() for keyword in ...)
GeneralQuestion(user_input) ==
    \E keyword \in Keywords : Contains(LowerText(user_input), keyword)

gender_options ==
    {TextMale, TextFemale, TextNonBinary, TextPreferNotToSay}

Demographics == <<"patient_demographics">>
Emergency == <<"emergency_contact">>
Financial == <<"insurance_and_financial">>
Primary == <<"insurance_and_financial", "primary_insurance">>
Secondary == <<"insurance_and_financial", "secondary_insurance">>
Medical == <<"medical_history_overview">>
Appointment == <<"appointment_details">>
Legal == <<"legal_compliance">>

\* process_response: the steps that store one field and go to one next
\* state: where the field is stored and which state follows.
Steps ==
    [get_full_legal_name |->
        [path |-> Demographics, field |-> "full_legal_name",
         next |-> "ask_date_of_birth"],
     get_date_of_birth |->
        [path |-> Demographics, field |-> "date_of_birth",
         next |-> "ask_phone_number"],
     get_phone_number |->
        [path |-> Demographics, field |-> "phone_number",
         next |-> "ask_email_address"],
     get_email_address |->
        [path |-> Demographics, field |-> "email_address",
         next |-> "ask_gender"],
     get_gender |->
        [path |-> Demographics, field |-> "gender", next |-> "ask_address"],
     get_address |->
        [path |-> Demographics, field |-> "address",
         next |-> "ask_preferred_language"],
     get_preferred_language |->
        [path |-> Demographics, field |-> "preferred_language",
         next |-> "ask_emergency_contact_name"],
     get_emergency_contact_relationship |->
        [path |-> Emergency, field |-> "relationship",
         next |-> "ask_emergency_contact_phone"],
     get_emergency_contact_phone |->
        [path |-> Emergency, field |-> "phone",
         next |-> "ask_primary_insurance_provider"],
     get_primary_insurance_provider |->
        [path |-> Primary, field |-> "provider_name",
         next |-> "ask_primary_insurance_policy_number"],
     get_primary_insurance_policy_number |->
        [path |-> Primary, field |-> "policy_number",
         next |-> "ask_primary_insurance_group_number"],
     get_primary_insurance_group_number |->
        [path |-> Primary, field |-> "group_number",
         next |-> "ask_primary_insurance_subscriber_name"],
     get_primary_insurance_subscriber_name |->
        [path |-> Primary, field |-> "subscriber_name",
         next |-> "ask_primary_insurance_subscriber_dob"],
     get_primary_insurance_subscriber_dob |->
        [path |-> Primary, field |-> "subscriber_dob",
         next |-> "ask_secondary_insurance_yn"],
     get_secondary_insurance_provider |->
        [path |-> Secondary, field |-> "provider_name",
         next |-> "ask_secondary_insurance_policy_number"],
     get_secondary_insurance_policy_number |->
        [path |-> Secondary, field |-> "policy_number",
         next |-> "ask_reason_for_visit_brief"],
     get_reason_for_visit_brief |->
        [path |-> Financial, field |-> "reason_for_visit_brief",
         next |-> "ask_financial_responsibility"],
     get_financial_responsibility |->
        [path |-> Financial, field |-> "financial_responsibility_acknowledged",
         next |-> "ask_medical_history_opt_in"],
     get_reason_for_appointment_full |->
        [path |-> Medical, field |-> "reason_for_appointment_full",
         next |-> "ask_known_allergies"],
     get_known_allergies |->
        [path |-> Medical, field |-> "known_allergies",
         next |-> "ask_current_medications"],
     get_current_medications |->
        [path |-> Medical, field |-> "current_medications",
         next |-> "ask_major_past_medical_conditions"],
     get_major_past_medical_conditions |->
        [path |-> Medical, field |-> "major_past_medical_conditions",
         next |-> "ask_referring_physician"],
     get_referring_physician |->
        [path |-> Medical, field |-> "referring_physician",
         next |-> "ask_desired_appointment_date"],
     get_desired_appointment_date |->
        [path |-> Appointment, field |-> "desired_appointment_date",
         next |-> "ask_desired_appointment_time"],
     get_desired_appointment_time |->
        [path |-> Appointment, field |-> "desired_appointment_time",
         next |-> "ask_preferred_provider"],
     get_preferred_provider |->
        [path |-> Appointment, field |-> "preferred_provider",
         next |-> "ask_special_needs"],
     get_special_needs |->
        [path |-> Appointment, field |-> "special_needs",
         next |-> "ask_consent_for_treatment"],
     get_consent_for_treatment |->
        [path |-> Legal, field |-> "consent_for_treatment_acknowledged",
         next |-> "ask_hipaa_privacy_acknowledged"],
     get_hipaa_privacy_acknowledged |->
        [path |-> Legal, field |-> "hipaa_privacy_acknowledged",
         next |-> "review_and_submit"]]

\* The steps that take any text, and the word that stands for None there.
FreeSteps ==
    [get_primary_insurance_group_number |-> WordNone,
     get_primary_insurance_subscriber_name |-> WordSame,
     get_reason_for_appointment_full |-> WordSkip,
     get_known_allergies |-> WordNone,
     get_current_medications |-> WordNone,
     get_major_past_medical_conditions |-> WordNone,
     get_referring_physician |-> WordNone,
     get_preferred_provider |-> WordNone,
     get_special_needs |-> WordNone]
\* The steps that go on only after a yes.
YesSteps ==
    {"get_financial_responsibility", "get_consent_for_treatment",
     "get_hipaa_privacy_acknowledged"}
\* The steps that test len(user_input) or a min_length, and the length.
LengthSteps ==
    [get_full_legal_name |-> 2,
     get_address |-> 5,
     get_preferred_language |-> 2,
     get_emergency_contact_relationship |-> 2,
     get_primary_insurance_provider |-> 2,
     get_primary_insurance_policy_number |-> 5,
     get_secondary_insurance_provider |-> 1,
     get_secondary_insurance_policy_number |-> 1,
     get_reason_for_visit_brief |-> 5]

\* The date a date step reads and the test it puts it to.
DateAccepted(state, d) ==
    CASE state = "get_date_of_birth" -> validate_date_of_birth(d)
      [] state = "get_primary_insurance_subscriber_dob" ->
            validate_subscriber_dob(d)
      [] state = "get_desired_appointment_date" ->
            validate_desired_appointment_date(d)
DateSteps ==
    {"get_date_of_birth", "get_primary_insurance_subscriber_dob",
     "get_desired_appointment_date"}

\* Every answer counts as an acknowledgement.
SaidAnything(lower) == TRUE
\* if "yes" in user_input.lower(), at the three acknowledgement steps
SaidYes(lower) == Contains(lower, WordYes)

\* Whether a step of Steps takes the input.
Accepted(state, user_input) ==
    CASE state \in DOMAIN FreeSteps -> TRUE
      [] state \in YesSteps -> SaidYes(LowerText(user_input))
      [] state = "get_full_legal_name" -> Len(user_input) \in 2..100
      [] state \in DOMAIN LengthSteps \ {"get_full_legal_name"} ->
            Len(user_input) >= LengthSteps[state]
      [] state = "get_primary_insurance_subscriber_dob"
            /\ LowerText(user_input) = WordSkip -> TRUE
      [] state \in DateSteps ->
            /\ DateFromIsoformat(user_input).some
            /\ DateAccepted(state, DateFromIsoformat(user_input).val)
      [] state \in {"get_phone_number", "get_emergency_contact_phone"} ->
            PhonePattern(user_input)
      [] state = "get_email_address" -> EmailPattern(user_input)
      [] state = "get_gender" -> Title(user_input) \in gender_options
      [] state = "get_desired_appointment_time" ->
            AppointmentTime(user_input).some

\* Every answer is stored as None.
StoredNone(state, user_input) == None
\* What a step of Steps stores for an input it takes.
Stored(state, user_input) ==
    CASE state \in DOMAIN FreeSteps ->
            IF LowerText(user_input) # FreeSteps[state]
            THEN Some(user_input) ELSE None
      [] state \in YesSteps -> TRUE
      [] state = "get_primary_insurance_subscriber_dob"
            /\ LowerText(user_input) = WordSkip -> None
      [] state \in DateSteps ->
            Some(DateIsoformat(DateFromIsoformat(user_input).val))
      [] state = "get_gender" -> Some(Title(user_input))
      [] state = "get_desired_appointment_time" ->
            Some(TimeIsoformat(AppointmentTime(user_input).val))
      [] OTHER -> Some(user_input)

\* process_response, await_final_submission: the values put where a
\* required field is missing, by section.
SubmitDefaults ==
    [patient_demographics |->
        [full_legal_name |-> Some(TextTempName),
         date_of_birth |-> Some(TextTempBorn),
         gender |-> Some(TextMale),
         phone_number |-> Some(TextTempPhone),
         email_address |-> Some(TextTempEmail)],
     emergency_contact |-> <<>>,
     insurance_and_financial |->
        [reason_for_visit_brief |-> Some(TextTempReason),
         financial_responsibility_acknowledged |-> FALSE],
     medical_history_overview |-> [opt_in |-> FALSE],
     appointment_details |->
        [desired_appointment_date |-> Some(DateIsoformat(Today)),
         desired_appointment_time |-> Some(TextNine)],
     legal_compliance |->
        [consent_for_treatment_acknowledged |-> FALSE,
         hipaa_privacy_acknowledged |-> FALSE]]
PrimaryDefaults ==
    [provider_name |-> Some(TextTempProvider),
     policy_number |-> Some(TextTempPolicy)]
SecondaryDefaults == [has_secondary_insurance |-> FALSE]

\* full_data: each section of new_patient_info, or {}, with the missing
\* required fields filled in
FullData(info) ==
    [section \in DOMAIN SubmitDefaults |->
        IF section = "insurance_and_financial"
        THEN LET data == Get(info, section)
             IN ("primary_insurance" :>
                    (Get(data, "primary_insurance") @@ PrimaryDefaults))
                @@ ("secondary_insurance" :>
                    (Get(data, "secondary_insurance") @@ SecondaryDefaults))
                @@ data @@ SubmitDefaults[section]
        ELSE Get(info, section) @@ SubmitDefaults[section]]
\* The dicts of new_patient_info are filled in place: a section that is
\* there is changed, a missing one stays missing.
AfterDefaults(info) == [section \in DOMAIN info |-> FullData(info)[section]]

\* An Optional[str] of the model that is missing or None
Unset(d, field) == field \notin DOMAIN d \/ ~d[field].some
\* PatientPreAppointmentInfo(**full_data) raises no ValidationError
ValidSubmission(data) ==
    LET demographics == data.patient_demographics
        emergency == data.emergency_contact
        financial == data.insurance_and_financial
        primary == financial.primary_insurance
        secondary == financial.secondary_insurance
        appointment == data.appointment_details
    IN /\ Len(demographics.full_legal_name.val) \in 2..100
       /\ DateFromIsoformat(demographics.date_of_birth.val).some
       /\ validate_date_of_birth(
             DateFromIsoformat(demographics.date_of_birth.val).val)
       /\ demographics.gender.val \in gender_options
       /\ PhonePattern(demographics.phone_number.val)
       /\ EmailPattern(demographics.email_address.val)
       /\ Unset(emergency, "phone") \/ PhonePattern(emergency.phone.val)
       /\ Len(primary.provider_name.val) >= 2
       /\ Len(primary.policy_number.val) >= 5
       /\ \/ Unset(primary, "subscriber_dob")
          \/ /\ DateFromIsoformat(primary.subscriber_dob.val).some
             /\ validate_subscriber_dob(
                   DateFromIsoformat(primary.subscriber_dob.val).val)
       /\ secondary.has_secondary_insurance
             => /\ ~Unset(secondary, "provider_name")
                /\ secondary.provider_name.val # <<>>
                /\ ~Unset(secondary, "policy_number")
                /\ secondary.policy_number.val # <<>>
       /\ Len(financial.reason_for_visit_brief.val) >= 5
       /\ DateFromIsoformat(appointment.desired_appointment_date.val).some
       /\ validate_desired_appointment_date(
             DateFromIsoformat(appointment.desired_appointment_date.val).val)
       /\ TimeFromIsoformat(appointment.desired_appointment_time.val).some

\* A variant that takes the patient on after a no.
NppAnswerGoesOn(ss, lower) ==
    IF Contains(lower, WordYes) \/ Contains(lower, WordNo)
    THEN ask_next_question(
            Say(Goto(Put(ss, "npp_agreed", Contains(lower, WordYes)),
                     "ask_full_legal_name"), "great"))
    ELSE Returned(Say(ss, "rejected"))
\* process_response, npp_agreement: the answer to the privacy notice
NppAnswer(ss, lower) ==
    IF Contains(lower, WordYes)
    THEN ask_next_question(
            Say(Goto(Put(ss, "npp_agreed", TRUE),
                     "ask_full_legal_name"), "great"))
    ELSE IF Contains(lower, WordNo)
    THEN ask_next_question(
            Say(Goto(Put(Put(ss, "npp_agreed", FALSE),
                         "user_type_chosen", None),
                     "initial_greeting"), "returning"))
    ELSE Returned(Say(ss, "rejected"))

\* process_response(user_input), called with the user's message already
\* appended: the session afterwards, and the exception if one left it.
process_response(ss, user_input) ==
    LET current_state == ss.conversation_state
        info == ss.new_patient_info
        lower == LowerText(user_input)
        Advance(stored, state) ==
            ask_next_question(Goto(Put(ss, "new_patient_info", stored), state))
    IN
    IF GeneralQuestion(user_input)
    THEN ask_next_question(Say(ss, "npp_answer"))
    ELSE CASE current_state = "user_type_selection" ->
            IF Contains(lower, WordNewUser)
            THEN ask_next_question(
                    Goto(Put(ss, "user_type_chosen", Some(TextNewUser)),
                         "display_npp"))
            ELSE IF Contains(lower, WordExistingUser)
            THEN ask_next_question(
                    Goto(Put(ss, "user_type_chosen", Some(TextExistingUser)),
                         "existing_user_info"))
            ELSE Returned(Say(ss, "rejected"))
      [] current_state = "npp_agreement" -> NppAnswer(ss, lower)
      [] current_state = "get_emergency_contact_name" ->
            IF lower = WordSkip
            THEN Advance(Store(Store(Store(info, Emergency, "name", None),
                                  Emergency, "relationship", None),
                            Emergency, "phone", None),
                      "ask_primary_insurance_provider")
            ELSE IF Len(user_input) >= 2
            THEN Advance(Store(info, Emergency, "name", Some(user_input)),
                      "ask_emergency_contact_relationship")
            ELSE Returned(Say(ss, "rejected"))
      [] current_state = "get_secondary_insurance_yn" ->
            IF Contains(lower, WordYes)
            THEN Advance(Store(info, Secondary, "has_secondary_insurance", TRUE),
                      "ask_secondary_insurance_provider")
            ELSE IF Contains(lower, WordNo)
            THEN Advance(Store(Store(Store(info, Secondary,
                                        "has_secondary_insurance", FALSE),
                                  Secondary, "provider_name", None),
                            Secondary, "policy_number", None),
                      "ask_reason_for_visit_brief")
            ELSE Returned(Say(ss, "rejected"))
      [] current_state = "get_medical_history_opt_in" ->
            IF Contains(lower, WordYes)
            THEN Advance(Store(info, Medical, "opt_in", TRUE),
                      "ask_reason_for_appointment_full")
            ELSE IF Contains(lower, WordNo)
            THEN Advance(Store(Store(Store(Store(Store(Store(info,
                        Medical, "opt_in", FALSE),
                        Medical, "reason_for_appointment_full", None),
                        Medical, "known_allergies", None),
                        Medical, "current_medications", None),
                        Medical, "major_past_medical_conditions", None),
                        Medical, "referring_physician", None),
                      "ask_desired_appointment_date")
            ELSE Returned(Say(ss, "rejected"))
      [] current_state \in DOMAIN Steps ->
            IF Accepted(current_state, user_input)
            THEN Advance(Store(info, Steps[current_state].path,
                            Steps[current_state].field,
                            Stored(current_state, user_input)),
                      Steps[current_state].next)
            ELSE Returned(Say(ss, IF current_state \in YesSteps
                                     /\ Contains(lower, WordNo)
                                  THEN "must_acknowledge" ELSE "rejected"))
      [] current_state = "await_final_submission" ->
            IF Contains(lower, WordSubmit)
            THEN LET filled == Put(ss, "new_patient_info",
                                   AfterDefaults(info))
                 IN IF ValidSubmission(FullData(info))
                    \* json.dumps(validated_info.dict(), indent=4): the
                    \* dict holds date and time objects
                    THEN Raised(Say(filled, "valid"), "TypeError")
                    ELSE Returned(Say(Say(filled, "validation_errors"),
                                      "back_or_submit"))
            ELSE IF Contains(lower, WordBack)
            THEN ask_next_question(Goto(ss, "ask_hipaa_privacy_acknowledged"))
            ELSE Returned(Say(ss, "rejected"))
      [] current_state = "offer_start_over" ->
            IF Contains(lower, WordStartOver)
            \* st.session_state.clear()
            THEN ask_next_question(
                    Goto(Put(<<>>, "messages", <<>>), "initial_greeting"))
            ELSE Returned(Say(ss, "rejected"))
      [] OTHER -> Returned(ss)

\* app(): the keys set when they are missing
SessionDefaults ==
    [messages |-> <<>>,
     conversation_state |-> "initial_greeting",
     new_patient_info |-> <<>>,
     npp_agreed |-> FALSE,
     npp_content |-> "NPP.md"]
\* app(): one run of the script, without a chat input (None) or with one
app(ss, user_input) ==
    LET initialised == ss @@ SessionDefaults
        messages == initialised.messages
        asked == IF messages = <<>> \/ messages[Len(messages)].role = "user"
                 THEN ask_next_question(initialised)
                 ELSE Returned(initialised)
    IN IF asked.raised # "none" \/ ~user_input.some
       THEN asked
       ELSE process_response(
               Put(asked.ss, "messages",
                   Append(asked.ss.messages,
                          [role |-> "user", content |-> user_input.val])),
               user_input.val)

\* The texts tried at each waiting state, beside the general question that
\* is tried at all of them.
Typed ==
    [user_type_selection |-> {TextNewUser, TextExistingUser, TextHello},
     npp_agreement |-> {TextYes, TextNo, TextHello},
     get_full_legal_name |-> {TextJaneDoe, TextJ},
     get_date_of_birth |-> {TextBornAdult, TextBornMinor, TextHello},
     get_phone_number |-> {TextPhone, TextShortPhone},
     get_email_address |-> {TextEmail, TextNoTld},
     get_gender |-> {TextMale, TextFemaleLower, TextNonBinary,
                     TextPreferNotToSay, TextOther},
     get_address |-> {TextJaneDoe, TextJ},
     get_preferred_language |-> {TextHello, TextJ},
     get_emergency_contact_name |-> {TextSkip, TextJaneDoe, TextJ},
     get_emergency_contact_relationship |-> {TextOther, TextJ},
     get_emergency_contact_phone |-> {TextPhone, TextShortPhone},
     get_primary_insurance_provider |-> {TextJaneDoe, TextJ},
     get_primary_insurance_policy_number |-> {TextPhone, TextJ},
     get_primary_insurance_group_number |-> {TextNone},
     get_primary_insurance_subscriber_name |-> {TextSame},
     get_primary_insurance_subscriber_dob |-> {TextSkip, TextFuture},
     get_secondary_insurance_yn |-> {TextYes, TextNo, TextHello},
     get_secondary_insurance_provider |-> {TextJaneDoe},
     get_secondary_insurance_policy_number |-> {TextPhone},
     get_reason_for_visit_brief |-> {TextHello, TextJ},
     get_financial_responsibility |-> {TextYes, TextNo, TextHello},
     get_medical_history_opt_in |-> {TextYes, TextNo, TextHello},
     get_reason_for_appointment_full |-> {TextSkip},
     get_known_allergies |-> {TextNone},
     get_current_medications |-> {TextNone},
     get_major_past_medical_conditions |-> {TextNone},
     get_referring_physician |-> {TextJaneDoe},
     get_desired_appointment_date |-> {TextFuture, TextBornMinor, TextHello},
     get_desired_appointment_time |-> {TextMorning, TextNoTime},
     get_preferred_provider |-> {TextNone},
     get_special_needs |-> {TextNone},
     get_consent_for_treatment |-> {TextYes, TextNo, TextHello},
     get_hipaa_privacy_acknowledged |-> {TextYes, TextNo, TextHello},
     await_final_submission |-> {TextSubmit, TextBack, TextHello},
     offer_start_over |-> {TextStartOver, TextHello}]

\* How many inputs that do not take the conversation forward one session
\* is followed for.
MaxRetries == 1

\* The state the next input is handled in: app() asks the first question
\* before it reads the input when the history is empty.
Waiting(ss) == app(ss, None).ss.conversation_state

\* The input left the conversation where it was or took it back.
Retry(before, after) ==
    \/ after = before
    \/ after \in {"initial_greeting", "user_type_selection"}
    \/ before = "await_final_submission"
          /\ after = "get_hipaa_privacy_acknowledged"

\* A browser opens the page: app() runs on an empty session state.
OpenPage ==
    /\ session_state = <<>>
    /\ session_state' = app(session_state, None).ss
    /\ chat' = [chat EXCEPT !.raised = app(session_state, None).raised]
    /\ UNCHANGED offChat

\* The user sends a text: app() runs again, with the chat input.
ChatInput ==
    /\ DOMAIN session_state # {}
    /\ \E before \in {Waiting(session_state)} :
          /\ before \in DOMAIN Typed
          /\ \E user_input \in Typed[before] \cup {TextWhatIsNpp} :
                \E run \in {app(session_state, Some(user_input))} :
                   \E retry \in {Retry(before, run.ss.conversation_state)} :
                      /\ retry => chat.retries < MaxRetries
                      /\ session_state' = run.ss
                      /\ chat' = [retries |-> IF retry THEN chat.retries + 1
                                                       ELSE chat.retries,
                                  raised |-> run.raised,
                                  user_input |-> Some(user_input)]
    /\ UNCHANGED offChat

NoChat == [retries |-> 0, raised |-> "none", user_input |-> None]

\* No session yet.
ChatInit ==
    /\ ServerIdle
    /\ RetrIdle
    /\ BuildIdle
    /\ client = [pc |-> "none", toolset |-> "none", closes |-> 0,
                 events |-> <<>>]
    /\ session_state = <<>>
    /\ chat = NoChat

ChatNext ==
    \/ OpenPage
    \/ ChatInput

SpecChat == ChatInit /\ [][ChatNext]_vars

\* The states in which patient data is collected, from ask_full_legal_name
\* through submission_complete.
DataCollection ==
    (DOMAIN AskNext \cup DOMAIN Typed)
        \ {"initial_greeting", "user_type_selection", "display_npp",
           "npp_agreement", "existing_user_info", "offer_start_over"}
\* st.session_state.npp_agreed is set and True.
Agreed == "npp_agreed" \in DOMAIN session_state /\ session_state.npp_agreed
\* new_patient_info holds something.
SomethingStored ==
    /\ "new_patient_info" \in DOMAIN session_state
    /\ DOMAIN session_state.new_patient_info # {}

\* C30: in every data-collection state npp_agreed is True, nothing is stored
\* in new_patient_info while it is not, and the answer "No" at npp_agreement
\* takes the conversation to user_type_selection with npp_agreed False.
C30_AgreementBeforeData ==
    /\ []((/\ "conversation_state" \in DOMAIN session_state
           /\ session_state.conversation_state \in DataCollection) => Agreed)
    /\ [](SomethingStored => Agreed)
    /\ [][(/\ DOMAIN session_state # {}
           /\ Waiting(session_state) = "npp_agreement"
           /\ chat' # chat
           /\ chat'.user_input = Some(TextNo))
              => /\ session_state'.conversation_state = "user_type_selection"
                 /\ session_state'.npp_agreed = FALSE
                 /\ chat'.raised = "none"]_vars
\* The patient said No, came back, agreed and went on to the review with
\* the fields stored.
C30_Witness ==
    /\ DOMAIN session_state # {}
    /\ session_state.conversation_state = "await_final_submission"
    /\ Agreed
    /\ SomethingStored
    /\ \E i \in 1..Len(session_state.messages) :
          /\ session_state.messages[i].role = "user"
          /\ session_state.messages[i].content = TextNo
          /\ session_state.messages[i + 1].content.say = "returning"

\* The section of new_patient_info a path names, {} when it is not there.
Section(info, path) ==
    IF Len(path) = 1 THEN Get(info, path[1])
    ELSE Get(Get(info, path[1]), path[2])
\* The field is stored, with any value.
IsSet(info, path, field) == field \in DOMAIN Section(info, path)
\* The session has been initialised by app().
Started == "conversation_state" \in DOMAIN session_state
\* new_patient_info, {} after st.session_state.clear()
CollectedData == Get(session_state, "new_patient_info")
\* One run of app() handled the text in the waiting state.
Handled(state, text) ==
    /\ DOMAIN session_state # {}
    /\ session_state' # session_state
    /\ Waiting(session_state) = state
    /\ chat'.user_input = Some(text)
\* The user message said and the kind of the assistant message that follows
\* it are in the history.
Answered(text, say) ==
    \E i \in 1..(Len(session_state.messages) - 1) :
       /\ session_state.messages[i].role = "user"
       /\ session_state.messages[i].content = text
       /\ session_state.messages[i + 1].role = "assistant"
       /\ session_state.messages[i + 1].content.say = say

\* The three acknowledgement steps and the field each one sets.
Acknowledgements ==
    [get_financial_responsibility |->
        [path |-> Financial, field |-> "financial_responsibility_acknowledged"],
     get_consent_for_treatment |->
        [path |-> Legal, field |-> "consent_for_treatment_acknowledged"],
     get_hipaa_privacy_acknowledged |->
        [path |-> Legal, field |-> "hipaa_privacy_acknowledged"]]
\* All three acknowledgements are stored as True.
Acknowledged ==
    \A state \in DOMAIN Acknowledgements :
       /\ IsSet(CollectedData, Acknowledgements[state].path,
                Acknowledgements[state].field)
       /\ Section(CollectedData, Acknowledgements[state].path)
             [Acknowledgements[state].field] = TRUE
ReviewStates ==
    {"review_and_submit", "await_final_submission", "submission_complete"}

Asked == app(session_state, None).ss
\* What the assistant said first in reply to the input of this step, "none"
\* when the history was cleared.
Reply(asked) ==
    IF Len(session_state'.messages) >= Len(asked.messages) + 2
    THEN session_state'.messages[Len(asked.messages) + 2].content.say
    ELSE "none"
\* The waiting states of the wizard in the order the questions are asked.
FixedOrder ==
    <<"get_full_legal_name", "get_date_of_birth", "get_phone_number",
      "get_email_address", "get_gender", "get_address",
      "get_preferred_language", "get_emergency_contact_name",
      "get_emergency_contact_relationship", "get_emergency_contact_phone",
      "get_primary_insurance_provider", "get_primary_insurance_policy_number",
      "get_primary_insurance_group_number",
      "get_primary_insurance_subscriber_name",
      "get_primary_insurance_subscriber_dob", "get_secondary_insurance_yn",
      "get_secondary_insurance_provider",
      "get_secondary_insurance_policy_number", "get_reason_for_visit_brief",
      "get_financial_responsibility", "get_medical_history_opt_in",
      "get_reason_for_appointment_full", "get_known_allergies",
      "get_current_medications", "get_major_past_medical_conditions",
      "get_referring_physician", "get_desired_appointment_date",
      "get_desired_appointment_time", "get_preferred_provider",
      "get_special_needs", "get_consent_for_treatment",
      "get_hipaa_privacy_acknowledged", "await_final_submission">>
\* The state that follows in the fixed order.
Following(state) ==
    FixedOrder[(CHOOSE i \in 1..Len(FixedOrder) : FixedOrder[i] = state) + 1]
\* The steps that ask for one field and have one successor: all but the
\* three that branch (emergency contact name, secondary insurance yes/no,
\* medical history opt-in).
OneFieldSteps ==
    {FixedOrder[i] : i \in 1..(Len(FixedOrder) - 1)}
        \ {"get_emergency_contact_name", "get_secondary_insurance_yn",
           "get_medical_history_opt_in"}
\* Where each of those steps keeps its answer.
FieldOf(state) == Steps[state]

\* The sections of new_patient_info and the keys that hold a nested section.
Sections ==
    {Demographics, Emergency, Financial, Primary, Secondary, Medical,
     Appointment, Legal}
Nested == {"primary_insurance", "secondary_insurance"}
\* Every field the collected data holds, as <<section, field, value>>.
FieldsOf(info) ==
    UNION {{<<path, field, Section(info, path)[field]>> :
               field \in DOMAIN Section(info, path) \ Nested} :
           path \in Sections}
\* The fields other than the one named.
Others(info, named) ==
    {f \in FieldsOf(info) : ~(f[1] = named.path /\ f[2] = named.field)}

C33_GeneralQuestionChangesNothing ==
    [][(/\ DOMAIN session_state # {}
        /\ session_state' # session_state
        /\ chat'.user_input = Some(TextWhatIsNpp)) =>
          \A asked \in {Asked} :
             /\ Reply(asked) = "npp_answer"
             /\ session_state'.conversation_state = asked.conversation_state
             /\ session_state'.new_patient_info = asked.new_patient_info
             /\ SubSeq(session_state'.messages, 1, Len(asked.messages))
                   = asked.messages
             /\ chat'.raised = "none"]_vars
\* The question was put at the address step, where a text of its length
\* would have been taken as the address: it was answered, and the address
\* is still asked for and not stored.
C33_Witness ==
    /\ Started
    /\ session_state.conversation_state = "get_address"
    /\ ~IsSet(CollectedData, Demographics, "address")
    /\ Len(TextWhatIsNpp) >= LengthSteps.get_address
    /\ \E i \in 1..(Len(session_state.messages) - 1) :
          /\ session_state.messages[i].role = "user"
          /\ session_state.messages[i].content = TextWhatIsNpp
          /\ session_state.messages[i + 1].content
                = [say |-> "npp_answer", at |-> "get_address"]

\* C34: 'Start Over' typed in offer_start_over ends without an exception and
\* leaves a fresh conversation: the history holds the greeting alone,
\* conversation_state is user_type_selection, new_patient_info is empty and
\* npp_agreed is False.
C34_StartOverResets ==
    [][(/\ DOMAIN session_state # {}
        /\ session_state' # session_state
        /\ chat'.user_input = Some(TextStartOver)
        /\ Waiting(session_state) = "offer_start_over") =>
          /\ chat'.raised = "none"
          /\ session_state'.conversation_state = "user_type_selection"
          /\ Len(session_state'.messages) = 1
          /\ session_state'.messages[1]
                = [role |-> "assistant",
                   content |-> [say |-> "prompt", at |-> "initial_greeting"]]
          /\ "new_patient_info" \in DOMAIN session_state'
          /\ session_state'.new_patient_info = <<>>
          /\ "npp_agreed" \in DOMAIN session_state'
          /\ session_state'.npp_agreed = FALSE]_vars

\* The four options the gender prompt offers, as they are offered.
GenderOffered == {TextMale, TextFemale, TextNonBinary, TextPreferNotToSay}
\* The option an input spells, letter case aside.
OptionTyped(user_input) ==
    {option \in GenderOffered : LowerText(option) = LowerText(user_input)}

\* C35: at the gender step each of the four options offered (Male, Female,
\* Non-binary, Prefer not to say), typed as offered or in any letter case,
\* is accepted, stored as the model's literal value, and the address is
\* asked for next.
C35_OfferedGenderAccepted ==
    [][(/\ DOMAIN session_state # {}
        /\ session_state' # session_state
        /\ chat'.user_input.some
        /\ OptionTyped(chat'.user_input.val) # {}
        /\ Waiting(session_state) = "get_gender") =>
          /\ chat'.raised = "none"
          /\ session_state'.conversation_state = "get_address"
          /\ IsSet(session_state'.new_patient_info, Demographics, "gender")
          /\ \E option \in OptionTyped(chat'.user_input.val) :
                Section(session_state'.new_patient_info, Demographics).gender
                   = Some(option)]_vars

\* The field is stored and holds None.
IsNone(info, path, field) ==
    IsSet(info, path, field) /\ ~Section(info, path)[field].some
\* The field is stored and holds a value.
HasValue(info, path, field) ==
    IsSet(info, path, field) /\ Section(info, path)[field].some
\* The five detail fields of the medical history.
MedicalDetails ==
    {"reason_for_appointment_full", "known_allergies", "current_medications",
     "major_past_medical_conditions", "referring_physician"}
\* One of the detail questions is in the history.
DetailAsked ==
    \E i \in 1..Len(session_state.messages) :
       /\ session_state.messages[i].role = "assistant"
       /\ session_state.messages[i].content.at
             \in {"ask_" \o field : field \in MedicalDetails}
\* The review step has been reached.
AtReview ==
    /\ Started
    /\ session_state.conversation_state
          \in {"review_and_submit", "await_final_submission"}
SecondaryConsistent ==
    /\ IsSet(CollectedData, Secondary, "has_secondary_insurance")
    /\ IF Section(CollectedData, Secondary).has_secondary_insurance
       THEN /\ HasValue(CollectedData, Secondary, "provider_name")
            /\ HasValue(CollectedData, Secondary, "policy_number")
       ELSE /\ IsNone(CollectedData, Secondary, "provider_name")
            /\ IsNone(CollectedData, Secondary, "policy_number")
MedicalConsistent ==
    /\ IsSet(CollectedData, Medical, "opt_in")
    /\ ~Section(CollectedData, Medical).opt_in =>
          /\ \A field \in MedicalDetails :
                IsNone(CollectedData, Medical, field)
          /\ ~DetailAsked

====
